---------------------------- MODULE Spec2Model ----------------------------
(***************************************************************************)
(* Redes_Ruteo: hazard-aware routing over a road network.                  *)
(*                                                                         *)
(* The module models                                                       *)
(*   - the failure-probability annotators                                  *)
(*       scripts/probability_model.py     (main, reset_..., calculate_...) *)
(*       scripts/procesar_amenazas.py     (resetear_costos, procesar_...)  *)
(*       scripts/test_routing_simulation.py (run_test and its helpers)     *)
(*   - the route endpoints                                                 *)
(*       main.py                          (get_routes_endpoint)            *)
(*       app.py                           (api_calculate_route)            *)
(*                                                                         *)
(* Probabilities are fixed-point numbers in units of 1/Scale; products are *)
(* rounded down after every multiplication.  Database state is modelled at *)
(* commit granularity: a statement sees the committed rows plus the rows   *)
(* its own transaction has written (READ COMMITTED).                       *)
(***************************************************************************)
EXTENDS Integers, Sequences, FiniteSets, TLC

VARIABLES
    ways,            \* rr.ways: id -> static attributes of the way
    coords,          \* rr.ways_vertices_pgr: node id -> <<x, y>>
    fail_prob,       \* rr.ways.fail_prob (committed), id -> probability
    threats,         \* rows of rr.amenazas_waze / _clima / _calming
    wvp_geom,        \* rr.ways_vertices_pgr exists and has geom/the_geom
    pm_pc,           \* probability_model.main: position
    pm_result,       \* probability_model.main: last return value
    pm_before,       \* fail_prob when the running rebuild started
    intersections,   \* rows of rr.way_threat_intersections
    rt_pc,           \* run_test: position
    rt_nodes,        \* run_test: <<start_node, end_node>>
    rt_written,      \* run_test: fail_prob rows updated in its transaction
    mid_read,        \* fail_prob last read by a route query during a rebuild
    rt_routes,       \* run_test: <<baseline_route, resilient_route>>
    amenazas,        \* procesar_amenazas.py: rows of the three threat tables
    prob_falla,      \* rr.ways.prob_falla
    costo_amenaza,   \* rr.ways.costo_amenaza
    costo_combinado, \* rr.ways.costo_combinado
    pa_pc,           \* procesar_amenazas.py __main__: position
    request,         \* the route request being served
    response,        \* the response to it
    missing_tables,  \* threat tables that do not exist in the database
    elems,           \* OSM extractor: elements the tile workers returned
    nodes_geojson,   \* features of infraestructura/nodes.geojson
    ways_geojson,    \* features of infraestructura/ways.geojson
    osm_pc,          \* OSM extractor and loader: position
    sim_route,       \* simulate_random_failures_on_route: its argument
    sim_threats,     \* simulate_random_failures_on_route: the list returned
    sim_pc,          \* simulate_random_failures_on_route: position
    openweather,     \* OpenWeather: queried centre -> what the API answers
    completed,       \* weather collector: futures in the order they completed
    wx_i,            \* weather collector: iterations of the result loop done
    feats,           \* weather collector: features collected
    errors,          \* weather collector: errors collected
    weather_threats_geojson, \* amenazas/weather_threats.geojson
    wx_pc,           \* weather collector: position
    wz_stack,        \* Waze crawl: the calls of crawl still to be made
    fetch_count,     \* Waze crawl: calls of fetch_box made
    wz_feats,        \* Waze crawl: features returned so far
    wz_last,         \* Waze crawl: the last call of crawl that ran
    waze_incidents_geojson, \* amenazas/waze_incidents.geojson
    wz_pc,           \* Waze fetcher main: position
    ov_base,         \* Overpass fetch: index in MIRRORS of the mirror in use
    ov_k,            \* Overpass fetch: attempt on that mirror, from 1
    ov_log,          \* Overpass fetch: the requests made and their outcomes
    ov_result,       \* Overpass fetch: pending, returned (a body) or raised
    tc_done,         \* calming extractor: the tiles whose future was taken
    feats_all,       \* calming extractor: features collected
    traffic_calming_threats_geojson, \* amenazas/traffic_calming_threats.geojson
    tc_pc,           \* calming extractor: position
    osm_done,        \* OSM extractor: the tiles whose future was taken
    ld_loader,       \* loaders: the loader that runs
    ld_feats,        \* loaders: the features of the loader's input file
    ld_rows,         \* loaders: the rows given to execute_values
    ld_pc,           \* loaders: position
    metadata_widths  \* rr.metadata_widths: osm_id -> row

vars == << ways, coords, fail_prob, threats, wvp_geom, pm_pc, pm_result,
           pm_before, intersections, rt_pc, rt_nodes, rt_written,
           mid_read, rt_routes, amenazas, prob_falla,
           costo_amenaza, costo_combinado, pa_pc, request, response,
           missing_tables, elems, nodes_geojson, ways_geojson, osm_pc,
           sim_route, sim_threats, sim_pc, openweather, completed, wx_i,
           feats, errors, weather_threats_geojson, wx_pc, wz_stack,
           fetch_count, wz_feats, wz_last, waze_incidents_geojson, wz_pc,
           ov_base, ov_k, ov_log, ov_result, tc_done, feats_all,
           traffic_calming_threats_geojson, tc_pc, osm_done, ld_loader,
           ld_feats, ld_rows, ld_pc, metadata_widths >>

pmVars   == << threats, wvp_geom, pm_pc, pm_result, pm_before >>
rtVars   == << intersections, rt_pc, rt_nodes, rt_written, mid_read,
               rt_routes >>
paVars   == << amenazas, prob_falla, costo_amenaza, costo_combinado, pa_pc >>
reqVars  == << request, response >>
osmVars  == << elems, nodes_geojson, ways_geojson, osm_pc >>
simVars  == << sim_route, sim_threats, sim_pc >>
wxVars   == << openweather, completed, wx_i, feats, errors,
               weather_threats_geojson, wx_pc >>
wzVars   == << wz_stack, fetch_count, wz_feats, wz_last,
               waze_incidents_geojson, wz_pc >>
ovVars   == << ov_base, ov_k, ov_log, ov_result >>
tcVars   == << tc_done, feats_all, traffic_calming_threats_geojson, tc_pc,
               osm_done >>
ldVars   == << ld_loader, ld_feats, ld_rows, ld_pc, metadata_widths >>
colVars  == << wxVars, wzVars, ovVars, tcVars, ldVars >>
netVars  == << ways, coords, missing_tables, osmVars, simVars, colVars >>

-----------------------------------------------------------------------------
(* Bounds of the model *)

MaxThreats       == 2      \* rows over the three rr.amenazas_* tables
MaxIntersections == 2      \* rows of rr.way_threat_intersections
MaxAmenazas      == 2      \* rows over the tables procesar_amenazas reads

-----------------------------------------------------------------------------
(* Fixed-point arithmetic *)

Scale == 10000

\* Python None and SQL NULL where a number is expected
None == -1000000

Mul(a, b) == (a * b) \div Scale

Min(a, b) == IF a <= b THEN a ELSE b

Max(a, b) == IF a >= b THEN a ELSE b

\* the integer part of the square root of n, lo <= sqrt(n) < hi
RECURSIVE Isqrt(_, _, _)
Isqrt(n, lo, hi) ==
    IF hi - lo <= 1 THEN lo
    ELSE LET mid == (lo + hi) \div 2
         IN  IF mid * mid <= n THEN Isqrt(n, mid, hi) ELSE Isqrt(n, lo, mid)

SetMax(S) == CHOOSE m \in S : \A x \in S : x <= m

SetMin(S) == CHOOSE m \in S : \A x \in S : m <= x

-----------------------------------------------------------------------------
(* scripts/probability_model.py: the probability curves *)

MaxSeverity == 5

Severities == 1..MaxSeverity

ThreatTypes == {"waze", "weather", "calming"}

\* random.uniform(0.85, 1.15): the two ends of the interval
RandomFactors == {8500, 11500}

Distances == {0, 75, 150, 600, 2000}

Areas == {0, 250000, 9000000}

DurationFactors == {6000, 8000, 10000}

base_probs(threat_type) ==
    CASE threat_type = "waze"    -> 6000
      [] threat_type = "weather" -> 4000
      [] threat_type = "calming" -> 1500
      [] OTHER                   -> 3000

distance_factor(distance_m) ==
    IF distance_m <= 50 THEN 10000
    ELSE IF distance_m <= 100 THEN 8000
    ELSE IF distance_m <= 200 THEN 6000
    ELSE Max(1000, Scale - distance_m * 10)

size_factor(threat_type, size_m) ==
    IF size_m # 0 /\ threat_type = "weather"
    THEN Min(20000, Scale + size_m * 5)
    ELSE Scale

ClampProbability(p) == Min(9500, Max(0, p))

CapProbabilityMissing(p) == p

CapProbability(p) == Min(9500, p)

calculate_dynamic_probability(threat_type, severity, distance_m, size_m, duration_factor, random_factor) ==
    LET base_prob       == base_probs(threat_type)
        severity_factor == 5000 + (severity - 1) * 3000
        time_factor     == 7000 + (duration_factor * 6) \div 10
        probability     ==
            Mul(Mul(Mul(Mul(Mul(base_prob, severity_factor),
                            distance_factor(distance_m)),
                        size_factor(threat_type, size_m)),
                    time_factor),
                random_factor)
    IN  ClampProbability(probability)

calculate_dynamic_weather_probability(severity, distance_m, size_m, visibility_factor, random_factor) ==
    LET visibility_impact    == IF severity >= 4 THEN 15000 ELSE Scale
        precipitation_factor == Scale + (size_m * Scale) \div 3000
        base_prob == calculate_dynamic_probability("weather", severity,
                         distance_m, size_m, 6000, random_factor)
    IN  CapProbability(Mul(Mul(Mul(base_prob, visibility_impact),
                               precipitation_factor),
                           visibility_factor))

GREATEST(a, b) == IF a >= b THEN a ELSE b

-----------------------------------------------------------------------------
(* The road network *)

Ways  == DOMAIN ways

Nodes == DOMAIN coords

\* infraestructura/osm_roads_overpass_parallel.py: the boolean stored in
\* rr.ways.oneway for a raw OSM tag (the loader turns a missing value to False)
oneway_bool(oneway_raw) == oneway_raw \in {"yes", "-1", "true", "1"}

ZeroProb == [w \in Ways |-> 0]

\* a row of rr.ways: cost_combined defaults to the length, no width limit
Way(source, target, length_m, oneway) ==
    [ source |-> source, target |-> target, length_m |-> length_m,
      oneway |-> oneway, maxwidth_m |-> None, cost_combined |-> length_m ]

\* no request in flight, no response to deliver
NoRequest == [ endpoint |-> "none" ]

NoResponse == [ status |-> 0 ]

-----------------------------------------------------------------------------
(* pgRouting: pgr_dijkstra over the rows of an edges query.  Costs are in   *)
(* units of 1/Scale metre.  A negative cost or reverse_cost means the edge  *)
(* cannot be traversed in that direction; NoColumn stands for an edges      *)
(* query without a reverse_cost column.                                     *)

NoColumn == -1

Arcs(rows, directed) ==
    LET fwd == { [id |-> r.id, from |-> r.source, to |-> r.target,
                  cost |-> r.cost] : r \in {q \in rows : q.cost >= 0} }
        bwd == { [id |-> r.id, from |-> r.target, to |-> r.source,
                  cost |-> r.reverse_cost] :
                 r \in {q \in rows : q.reverse_cost >= 0} }
        flip(A) == { [id |-> a.id, from |-> a.to, to |-> a.from,
                      cost |-> a.cost] : a \in A }
    IN  IF directed THEN fwd \cup bwd
        ELSE fwd \cup bwd \cup flip(fwd) \cup flip(bwd)

RECURSIVE SimplePaths(_, _, _, _)
SimplePaths(arcs, u, t, visited) ==
    IF u = t THEN { << >> }
    ELSE UNION { { << a >> \o p :
                   p \in SimplePaths(arcs, a.to, t, visited \cup {a.to}) } :
                 a \in {b \in arcs : b.from = u /\ b.to \notin visited} }

RECURSIVE PathCost(_)
PathCost(p) == IF p = << >> THEN 0 ELSE Head(p).cost + PathCost(Tail(p))

\* the possible results: the cheapest paths, or no rows when there is none
\* (pgr_dijkstra also returns no rows when start and end are the same node)
pgr_dijkstra(rows, start_vid, end_vid, directed) ==
    LET paths == SimplePaths(Arcs(rows, directed), start_vid, end_vid,
                             {start_vid})
    IN  IF paths = {} THEN { << >> }
        ELSE { p \in paths : \A q \in paths : PathCost(p) <= PathCost(q) }

RECURSIVE PathNodes(_, _)
PathNodes(p, start_vid) ==
    IF p = << >> THEN << start_vid >>
    ELSE << start_vid >> \o PathNodes(Tail(p), Head(p).to)

RECURSIVE PathLength(_)
PathLength(p) ==
    IF p = << >> THEN 0 ELSE ways[Head(p).id].length_m + PathLength(Tail(p))

-----------------------------------------------------------------------------
(* Nearest-node lookup: ORDER BY geom <-> point LIMIT 1 *)

Dist2(p, q) == (p[1] - q[1]) * (p[1] - q[1]) + (p[2] - q[2]) * (p[2] - q[2])

FarthestOf(S, pt) ==
    IF S = {} THEN { None }
    ELSE { n \in S : \A m \in S : Dist2(coords[n], pt) >= Dist2(coords[m], pt) }

NearestOf(S, pt) ==
    IF S = {} THEN { None }
    ELSE { n \in S : \A m \in S : Dist2(coords[n], pt) <= Dist2(coords[m], pt) }

\* Python truth value of a node id returned by a lookup
Falsy(x) == x = None \/ x = 0

-----------------------------------------------------------------------------
(* The threat tables rr.amenazas_waze, rr.amenazas_clima, rr.amenazas_calming *)
(* as the loaders fill them: one row per ext_id, replaced on conflict.        *)
(* ways is the set of ways the row joins with (ST_DWithin / ST_Intersects),   *)
(* distance_m the ST_Distance of the join, area_m2 the ST_Area of the row.    *)

ThreatTables == {"waze", "clima", "calming"}

ThreatRows ==
    [ ext_id     : 1..MaxThreats,
      tbl        : ThreatTables,
      severity   : {1, MaxSeverity},
      distance_m : {0},
      area_m2    : {250000},
      ways       : { {1}, {1, 2} } ]

Table(tbl) == { t \in threats : t.tbl = tbl }

\* the table of the database each of them is
table_name ==
    [ waze |-> "rr.amenazas_waze", clima |-> "rr.amenazas_clima",
      calming |-> "rr.amenazas_calming" ]

\* loaders/load_threats_*.py: INSERT ... ON CONFLICT (ext_id) DO UPDATE
LoadThreat(t) ==
    /\ pm_pc = "idle"
    /\ table_name[t.tbl] \notin missing_tables
    /\ threats' = { u \in threats : u.ext_id # t.ext_id } \cup { t }
    /\ UNCHANGED << netVars, fail_prob, wvp_geom, pm_pc, pm_result, pm_before,
                    rtVars, paVars, reqVars >>

-----------------------------------------------------------------------------
(* scripts/probability_model.py *)

\* the module never binds get_influence_radius, WAZE_PROB, WAZE_RADIUS_M,
\* WEATHER_PROB_FACTOR, CALMING_PROB, CALMING_RADIUS_M: evaluating one of
\* them raises NameError
PMNamesBound == FALSE

\* the rows an UPDATE of probability_model would have to wait for: the rows
\* run_test has updated and not yet rolled back
RowsLocked == rt_written # << >>

reset_failure_probabilities == ZeroProb

RECURSIVE ApplyWeatherRows(_, _, _)
ApplyWeatherRows(rows, rf, fp) ==
    IF rows = {} THEN fp
    ELSE LET row    == CHOOSE r \in rows : TRUE
             w      == row[1]
             t      == row[2]
             size_m == Isqrt(t.area_m2, 0, 4096)
             visibility_factor == IF t.severity >= 4 THEN 15000 ELSE Scale
             prob   == calculate_dynamic_weather_probability(t.severity,
                           t.distance_m, size_m, visibility_factor, rf[row])
         IN  ApplyWeatherRows(rows \ {row}, rf,
                              [fp EXCEPT ![w] = GREATEST(@, prob)])

WeatherJoin == { <<w, t>> \in Ways \X Table("clima") : w \in t.ways }

\* The outcomes of calculate_failure_probabilities on a connection whose
\* rr.ways.fail_prob is fp: [ok |-> the call returned, fp |-> what it left
\* committed].  An exception leaves the transaction uncommitted, and main
\* returns 1 without committing it.
calculate_failure_probabilities(fp) ==
    LET waze_count    == Cardinality(Table("waze"))
        weather_count == Cardinality(Table("clima"))
        calming_count == Cardinality(Table("calming"))
        total_threats == waze_count + weather_count + calming_count
    IN  IF total_threats = 0
        THEN { [ok |-> TRUE, fp |-> fp] }
        ELSE IF waze_count > 0 /\ ~PMNamesBound
        THEN { [ok |-> FALSE, fp |-> fp] }
        ELSE IF calming_count > 0 /\ ~PMNamesBound
        THEN { [ok |-> FALSE, fp |-> fp] }
        ELSE IF wvp_geom /\ ~PMNamesBound
        THEN { [ok |-> FALSE, fp |-> fp] }
        ELSE { [ok |-> TRUE, fp |-> ApplyWeatherRows(WeatherJoin, rf, ZeroProb)] :
               rf \in [WeatherJoin -> RandomFactors] }

\* ensure_spatial_indexes returns: its CREATE INDEX and ANALYZE statements
\* name the three threat tables and raise on one that does not exist
ensure_spatial_indexes ==
    \A tbl \in ThreatTables : table_name[tbl] \notin missing_tables

\* main, up to the commit of reset_failure_probabilities; an exception of
\* ensure_spatial_indexes ends main with 1
PM_Reset ==
    /\ pm_pc = "idle"
    /\ ~RowsLocked
    /\ IF ensure_spatial_indexes
       THEN /\ pm_before' = fail_prob
            /\ fail_prob' = reset_failure_probabilities
            /\ pm_pc' = "calculate"
            /\ mid_read' = << >>
            /\ UNCHANGED pm_result
       ELSE /\ pm_result' = 1
            /\ UNCHANGED << pm_before, fail_prob, pm_pc, mid_read >>
    /\ UNCHANGED << netVars, threats, wvp_geom,
                    intersections, rt_pc, rt_nodes, rt_written, rt_routes,
                    paVars, reqVars >>

\* main, from calculate_failure_probabilities to its return
PM_Calculate ==
    /\ pm_pc = "calculate"
    /\ threats # {} => ~RowsLocked
    /\ \E out \in calculate_failure_probabilities(fail_prob) :
          /\ fail_prob' = out.fp
          /\ pm_before' = out.fp
          /\ pm_result' = IF out.ok THEN 0 ELSE 1
    /\ pm_pc' = "idle"
    /\ mid_read' = << >>
    /\ UNCHANGED << netVars, threats, wvp_geom, intersections, rt_pc, rt_nodes,
                    rt_written, rt_routes, paVars, reqVars >>

-----------------------------------------------------------------------------
(* scripts/test_routing_simulation.py *)

DEFAULT_START_COORDS == <<0, 0>>

DEFAULT_END_COORDS == <<4, 0>>

\* rows of rr.way_threat_intersections
SourceSubtypes ==
    { <<"waze", "CLOSURE">>, <<"waze", "TRAFFIC_JAM">>,
      <<"weather", "HEAVY_RAIN">>, <<"weather", "STRONG_WIND">>,
      <<"weather", "LOW_VISIBILITY">>, <<"traffic_calming", "BUMP">>,
      <<"hydrant", "NON_FUNCTIONAL">> }

IntersectionRows ==
    [ way_id   : Ways \cap {1, 2},
      kind     : SourceSubtypes,
      severity : {1, MaxSeverity} ]

LoadIntersection(r) ==
    /\ rt_pc = "idle"
    /\ Cardinality(intersections \cup {r}) <= MaxIntersections
    /\ intersections' = intersections \cup {r}
    /\ UNCHANGED << netVars, fail_prob, pmVars, rt_pc, rt_nodes, rt_written,
                    mid_read, rt_routes, paVars, reqVars >>

\* the CASE of simulate_failures_and_update_graph
threat_case(source, subtype, severity) ==
    CASE source = "waze" /\ subtype = "CLOSURE"            -> 9500
      [] source = "waze" /\ subtype = "TRAFFIC_JAM"        -> 4000
      [] source = "weather" /\ subtype = "HEAVY_RAIN"      -> 3000 + (severity - 1) * 2000
      [] source = "weather" /\ subtype = "STRONG_WIND"     -> 2500 + (severity - 1) * 2000
      [] source = "weather" /\ subtype = "LOW_VISIBILITY"  -> 5000 + (severity - 1) * 2000
      [] source = "traffic_calming"                        -> 500
      [] OTHER                                             -> 1000

\* the rows the UPDATE ... FROM (... GROUP BY way_id) t WHERE w.id = t.way_id
\* writes: way id -> COALESCE(MAX(CASE ...), 0)
simulate_failures_and_update_graph ==
    LET way_ids == { r.way_id : r \in intersections }
    IN  [ w \in way_ids |->
            SetMax({ threat_case(r.kind[1], r.kind[2], r.severity) :
                     r \in { q \in intersections : q.way_id = w } }) ]

\* rr.ways.fail_prob as the statements of run_test's connection see it
Visible == [ w \in Ways |-> IF w \in DOMAIN rt_written THEN rt_written[w]
                            ELSE fail_prob[w] ]

\* rr.ways.fail_prob as committed, had the connection's updates been kept
conn_commit(fp, written) ==
    [ w \in Ways |-> IF w \in DOMAIN written THEN written[w] ELSE fp[w] ]

\* conn.rollback(): rr.ways.fail_prob as committed, the connection's updates
\* discarded
conn_rollback(fp, written) == fp

\* rr.ways_routing: cost and reverse_cost in metres
ways_routing(fp) ==
    { [ id |-> w, source |-> ways[w].source, target |-> ways[w].target,
        cost |-> ways[w].length_m,
        reverse_cost |-> IF oneway_bool(ways[w].oneway) THEN -1
                         ELSE ways[w].length_m,
        fail_prob |-> fp[w] ] : w \in Ways }

\* "(1.0 - COALESCE(fail_prob, 0.0)) * cost", in units of 1/Scale metre
RiskDiscounted(fp, cost) == (Scale - fp) * cost

cost_expression(use_fail_prob, r) ==
    IF use_fail_prob THEN RiskDiscounted(r.fail_prob, r.cost)
    ELSE Scale * r.cost

\* the possible return values: the route rows joined with rr.ways and summed.
\* SUM over no rows is NULL, and json_build_object is not: with no route the
\* function returns a result whose total_length_m is None.
run_routing_algorithm(fp, start_node, end_node, use_fail_prob) ==
    LET rows == { [ id |-> r.id, source |-> r.source, target |-> r.target,
                    cost |-> cost_expression(use_fail_prob, r),
                    reverse_cost |-> IF r.reverse_cost < 0 THEN -1
                                     ELSE Scale * r.reverse_cost ] :
                  r \in ways_routing(fp) }
    IN  { [ edges |-> [ i \in 1..Len(p) |-> p[i].id ],
            nodes |-> PathNodes(p, start_node),
            total_length_m |-> IF p = << >> THEN None ELSE PathLength(p) ] :
          p \in pgr_dijkstra(rows, start_node, end_node, TRUE) }

NoRoute == [ edges |-> << >>, nodes |-> << >>, total_length_m |-> None ]

\* run_test up to the baseline route.  Without nodes it returns; a baseline
\* result without length raises TypeError at the first print; the finally
\* clause rolls back and closes.
RT_Begin ==
    /\ rt_pc = "idle"
    /\ \E start_node \in NearestOf(Nodes, DEFAULT_START_COORDS),
          end_node \in NearestOf(Nodes, DEFAULT_END_COORDS) :
          IF Falsy(start_node) \/ Falsy(end_node)
          THEN UNCHANGED << rt_pc, rt_nodes, rt_routes >>
          ELSE \E baseline_route \in run_routing_algorithm(
                                fail_prob, start_node, end_node, FALSE) :
                 IF baseline_route.total_length_m = None
                 THEN UNCHANGED << rt_pc, rt_nodes, rt_routes >>
                 ELSE /\ rt_pc' = "baseline"
                      /\ rt_nodes' = << start_node, end_node >>
                      /\ rt_routes' = << baseline_route, NoRoute >>
    /\ UNCHANGED << netVars, fail_prob, pmVars, intersections, rt_written,
                    mid_read, paVars, reqVars >>

\* conn.autocommit = False; simulate_failures_and_update_graph(conn)
RT_Simulate ==
    /\ rt_pc = "baseline"
    /\ rt_written' = simulate_failures_and_update_graph
    /\ rt_pc' = "simulated"
    /\ UNCHANGED << netVars, fail_prob, pmVars, intersections, rt_nodes,
                    mid_read, rt_routes, paVars, reqVars >>

\* the resilient route and the comparison; a result without length raises
\* TypeError and the finally clause rolls back
RT_Resilient ==
    /\ rt_pc = "simulated"
    /\ mid_read' = IF pm_pc = "calculate" THEN Visible ELSE mid_read
    /\ \E resilient_route \in run_routing_algorithm(
                          Visible, rt_nodes[1], rt_nodes[2], TRUE) :
          IF resilient_route.total_length_m = None
          THEN /\ rt_pc' = "idle"
               /\ fail_prob' = conn_rollback(fail_prob, rt_written)
               /\ rt_written' = << >>
               /\ rt_nodes' = << None, None >>
               /\ rt_routes' = << NoRoute, NoRoute >>
          ELSE /\ rt_pc' = "compared"
               /\ rt_routes' = << rt_routes[1], resilient_route >>
               /\ UNCHANGED << fail_prob, rt_written, rt_nodes >>
    /\ UNCHANGED << netVars, pmVars, intersections, paVars, reqVars >>

\* finally: conn.rollback(); conn.close()
RT_Finish ==
    /\ rt_pc = "compared"
    /\ fail_prob' = conn_rollback(fail_prob, rt_written)
    /\ rt_written' = << >>
    /\ rt_pc' = "idle"
    /\ rt_nodes' = << None, None >>
    /\ rt_routes' = << NoRoute, NoRoute >>
    /\ UNCHANGED << netVars, pmVars, intersections, mid_read, paVars,
                    reqVars >>

-----------------------------------------------------------------------------
(* scripts/procesar_amenazas.py.  Costs are in units of 1/CostScale metre.  *)

CostScale == 10

W_SEVERIDAD == 5        \* 0.5

W_IMPACTO == 15         \* 1.5

W_DISTANCIA == 10       \* 1.0

W_RIESGO == 30          \* 3.0

COSTO_INTRANSITABLE == 9999999 * CostScale

amenazas_config == << "rr.amenazas_calming", "rr.amenazas_waze",
                      "rr.amenazas_weather" >>

\* rows of the three tables; ways is the set of ways within the table's
\* radius of the row (ST_DWithin)
AmenazaRows ==
    [ tabla           : { amenazas_config[i] : i \in 1..3 },
      severidad       : {1, 10},
      impacto_critico : {10},
      ways            : { {2} } ]

LoadAmenaza(a) ==
    /\ pa_pc = "idle"
    /\ a.tabla \notin missing_tables
    /\ Cardinality(amenazas \cup {a}) <= MaxAmenazas
    /\ amenazas' = amenazas \cup {a}
    /\ UNCHANGED << netVars, fail_prob, pmVars, rtVars, prob_falla,
                    costo_amenaza, costo_combinado, pa_pc, reqVars >>

penalizacion(a) == a.severidad * W_SEVERIDAD + a.impacto_critico * W_IMPACTO

\* (severidad + impacto_critico) / 20.0
prob(a) == ((a.severidad + a.impacto_critico) * Scale) \div 20

resetear_costos ==
    /\ pa_pc = "idle"
    /\ prob_falla' = ZeroProb
    /\ costo_amenaza' = ZeroProb
    /\ costo_combinado' = [ w \in Ways |-> None ]
    /\ pa_pc' = "procesar"
    /\ UNCHANGED << netVars, fail_prob, pmVars, rtVars, amenazas, reqVars >>

\* every row of the table that joins with way w
Joined(tabla, w) == { a \in amenazas : a.tabla = tabla /\ w \in a.ways }

\* the choices of UPDATE ... FROM: for a way that joins with several rows of
\* the table, one of them, not predictable which, updates the way
JoinChoices(tabla) ==
    LET joining == { w \in Ways : Joined(tabla, w) # {} }
    IN  { f \in [ joining -> amenazas ] :
              \A w \in joining : f[w] \in Joined(tabla, w) }

\* one UPDATE of procesar_amenazas, with the joined row of each way
UpdateWays(st, pick) ==
    [ costo_amenaza |->
        [ w \in Ways |-> IF w \in DOMAIN pick
                         THEN st.costo_amenaza[w] + penalizacion(pick[w])
                         ELSE st.costo_amenaza[w] ],
      prob_falla |->
        [ w \in Ways |-> IF w \in DOMAIN pick
                         THEN GREATEST(st.prob_falla[w], prob(pick[w]))
                         ELSE st.prob_falla[w] ] ]

\* the loop over amenazas_config, from table i on
RECURSIVE ProcesarTablas(_, _)
ProcesarTablas(i, st) ==
    IF i > Len(amenazas_config) THEN { st }
    ELSE UNION { ProcesarTablas(i + 1, UpdateWays(st, pick)) :
                 pick \in JoinChoices(amenazas_config[i]) }

\* the UPDATE of a table that does not exist raises: the except branch rolls
\* back the updates of the tables before it and returns
procesar_amenazas ==
    /\ pa_pc = "procesar"
    /\ IF \E i \in DOMAIN amenazas_config : amenazas_config[i] \in missing_tables
       THEN UNCHANGED << costo_amenaza, prob_falla >>
       ELSE \E st \in ProcesarTablas(1, [ costo_amenaza |-> costo_amenaza,
                                          prob_falla |-> prob_falla ]) :
               /\ costo_amenaza' = st.costo_amenaza
               /\ prob_falla' = st.prob_falla
    /\ pa_pc' = "combinar"
    /\ UNCHANGED << netVars, fail_prob, pmVars, rtVars, amenazas,
                    costo_combinado, reqVars >>

calcular_costo_combinado ==
    /\ pa_pc = "combinar"
    /\ costo_combinado' =
          [ w \in Ways |->
              IF prob_falla[w] >= Scale THEN COSTO_INTRANSITABLE
              ELSE (ways[w].length_m * W_DISTANCIA
                    + (costo_amenaza[w] * W_RIESGO) \div CostScale) ]
    /\ pa_pc' = "idle"
    /\ UNCHANGED << netVars, fail_prob, pmVars, rtVars, amenazas, prob_falla,
                    costo_amenaza, reqVars >>

-----------------------------------------------------------------------------
(* main.py: the route endpoint over the database of procesar_amenazas.py.   *)
(* Widths are in decimetres.                                                *)

\* points at and between the nodes of the network
NetworkPoints == { <<0, 0>>, <<6, 0>>, <<6, 3>>, <<3, 4>> }

\* and a point far outside the network
RequestPoints == NetworkPoints \cup { <<100, 0>> }

DefaultVehicleWidth == 25

find_nearest_node_farthest(lon, lat) == FarthestOf(Nodes, <<lon, lat>>)

find_nearest_node(lon, lat) == NearestOf(Nodes, <<lon, lat>>)

NotFound == [ found |-> FALSE, edges |-> << >>, nodes |-> << >>, cost |-> 0 ]

\* sum(f[e] for e in edges)
RECURSIVE SumOver(_, _)
SumOver(f, edges) ==
    IF edges = << >> THEN 0 ELSE f[Head(edges)] + SumOver(f, Tail(edges))

\* (geojson, total_cost) for the rows of pgr_dijkstra; found is whether the
\* geojson is not None
get_route_geojson_from_path(path, start_node) ==
    IF path = << >> THEN NotFound
    ELSE [ found |-> TRUE,
           edges |-> [ i \in 1..Len(path) |-> path[i].id ],
           nodes |-> PathNodes(path, start_node),
           cost  |-> PathCost(path) ]

WidthAllowsAny(w, width_m) == TRUE

\* maxwidth_m IS NULL OR maxwidth_m >= width_m
WidthAllows(w, width_m) ==
    ways[w].maxwidth_m = None \/ ways[w].maxwidth_m >= width_m

\* CASE WHEN oneway = 'yes' THEN -1 WHEN oneway = '-1' THEN c ELSE c END
reverse_cost_of(oneway, c) ==
    IF oneway = "yes" THEN -1 ELSE IF oneway = "-1" THEN c ELSE c

sql_grafo_distancia(width_m) ==
    { [ id |-> w, source |-> ways[w].source, target |-> ways[w].target,
        cost |-> ways[w].length_m * CostScale,
        reverse_cost |-> reverse_cost_of(ways[w].oneway,
                                         ways[w].length_m * CostScale) ] :
      w \in { v \in Ways : ways[v].length_m > 0 /\ WidthAllows(v, width_m) } }

calc_dijkstra_distancia(start_node, end_node, width_m) ==
    { get_route_geojson_from_path(p, start_node) :
      p \in pgr_dijkstra(sql_grafo_distancia(width_m), start_node, end_node,
                         TRUE) }

sql_grafo_ponderado(width_m) ==
    { [ id |-> w, source |-> ways[w].source, target |-> ways[w].target,
        cost |-> costo_combinado[w],
        reverse_cost |-> reverse_cost_of(ways[w].oneway, costo_combinado[w]) ] :
      w \in { v \in Ways : /\ costo_combinado[v] # None
                           /\ costo_combinado[v] > 0
                           /\ WidthAllows(v, width_m) } }

calc_dijkstra_ponderado(start_node, end_node, width_m) ==
    { get_route_geojson_from_path(p, start_node) :
      p \in pgr_dijkstra(sql_grafo_ponderado(width_m), start_node, end_node,
                         TRUE) }

\* the two stubs return (None, 0)
calc_cplex_optimizado == NotFound

calc_metaheuristica == NotFound

get_routes_endpoint(req) ==
    /\ request' = req
    /\ \E start_node \in find_nearest_node(req.start[1], req.start[2]),
          end_node \in find_nearest_node(req.end[1], req.end[2]) :
          IF Falsy(start_node) \/ Falsy(end_node)
          THEN response' = [ status |-> 404, error |-> "NoNearbyNode" ]
          ELSE \E geo_a \in calc_dijkstra_distancia(start_node, end_node,
                                                   req.vehicle_width),
                  geo_c \in calc_dijkstra_ponderado(start_node, end_node,
                                                   req.vehicle_width) :
                 response' =
                   [ status |-> 200,
                     nodes  |-> << start_node, end_node >>,
                     routes |-> [ dijkstra_distancia |-> geo_a,
                                  dijkstra_ponderada |-> geo_c,
                                  cplex_optimizado   |-> calc_cplex_optimizado,
                                  metaheuristica     |-> calc_metaheuristica ] ]
    /\ UNCHANGED << netVars, fail_prob, pmVars, rtVars, paVars >>

\* the default vehicle between any two points, a vehicle one metre wider
\* from A
MainRequests ==
    [ endpoint : {"main"}, start : RequestPoints, end : RequestPoints,
      vehicle_width : { DefaultVehicleWidth } ]
    \cup
    [ endpoint : {"main"}, start : { <<0, 0>> }, end : RequestPoints,
      vehicle_width : { DefaultVehicleWidth + 10 } ]

-----------------------------------------------------------------------------
(* Redes_Ruteo/app.py: POST /api/calculate_route over the rr database.      *)
(* Costs are in units of 1/Scale metre.                                     *)

Algorithms == {"dijkstra_dist", "dijkstra_prob", "astar_prob", "cplex"}

\* the table rr.components (node, component) the nearest-node queries join:
\* the component of a node is the least node id connected to it
components ==
    LET arcs == Arcs({ [ id |-> w, source |-> ways[w].source,
                         target |-> ways[w].target, cost |-> 1,
                         reverse_cost |-> 1 ] : w \in Ways }, TRUE)
    IN  [ n \in Nodes |->
            SetMin({ m \in Nodes : SimplePaths(arcs, n, m, {n}) # {} }) ]

\* ... JOIN rr.components c ON v.id = c.node WHERE c.component = 1
\*     ORDER BY v.the_geom <-> point LIMIT 1
nearest_node_row(pt) ==
    NearestOf({ n \in Nodes : components[n] = 1 }, pt)

\* the name ids_str, which api_calculate_route reads and nothing binds:
\* reading it raises NameError
ids_str_bound == [ bound |-> TRUE, ids |-> {} ]

ids_str == [ bound |-> FALSE, ids |-> {} ]

Raised == [ present |-> FALSE, raised |-> TRUE ]

Absent == [ present |-> FALSE, raised |-> FALSE ]

\* the fallback of build_route_geojson: an empty route
EmptyRoute ==
    [ present |-> TRUE, edges |-> << >>, nodes |-> << >>,
      total_length_m |-> 0, total_cost |-> 0 ]

build_route_geojson(path, source_node) ==
    IF path = << >> THEN EmptyRoute
    ELSE [ present |-> TRUE,
           edges |-> [ i \in 1..Len(path) |-> path[i].id ],
           nodes |-> PathNodes(path, source_node),
           total_length_m |-> PathLength(path),
           total_cost |-> PathCost(path) ]

\* CASE WHEN w.id IN (ids_str) THEN c * 10 ELSE c END if ids_str else c
penalty_clause(w, c) == IF w \in ids_str.ids THEN c * 10 ELSE c

AppRows(W, cost) ==
    { [ id |-> w, source |-> ways[w].source, target |-> ways[w].target,
        cost |-> cost[w], reverse_cost |-> NoColumn ] : w \in W }

Weighted == { w \in Ways : ways[w].cost_combined > 0 }

route_dijkstra_dist(s, t) ==
    IF ~ids_str.bound THEN { Raised }
    ELSE LET c == [ w \in Ways |->
                        penalty_clause(w, ways[w].length_m * Scale) ]
         IN  { build_route_geojson(p, s) :
               p \in pgr_dijkstra(AppRows(Ways, c), s, t, FALSE) }

route_dijkstra_prob(s, t) ==
    IF ~ids_str.bound THEN { Raised }
    ELSE LET c == [ w \in Ways |->
                        penalty_clause(w, ways[w].cost_combined * Scale) ]
         IN  { build_route_geojson(p, s) :
               p \in pgr_dijkstra(AppRows(Weighted, c), s, t, FALSE) }

\* pgr_astar returns a cheapest path as pgr_dijkstra does: its heuristic is
\* the distance in degrees, far below the costs in metres
route_astar_prob(s, t) ==
    IF ~ids_str.bound THEN { Raised }
    ELSE LET c == [ w \in Ways |->
                        (penalty_clause(w, ways[w].cost_combined * Scale) * 8
                         + ways[w].length_m * Scale * 2) \div 10 ]
             W == { w \in Weighted : ways[w].source \in Nodes
                                     /\ ways[w].target \in Nodes }
         IN  { build_route_geojson(p, s) :
               p \in pgr_dijkstra(AppRows(W, c), s, t, FALSE) }

\* w.cost_combined * (1 + COALESCE(w.fail_prob, 0) * 10) [* 10 for ids_str]
cplex_cost ==
    [ w \in Ways |-> ways[w].cost_combined * (Scale + 10 * fail_prob[w])
                       * (IF w \in ids_str.ids THEN 10 ELSE 1) ]

has_valid_route(geojson) == geojson.nodes # << >>

route_cplex(s, t) ==
    IF ~ids_str.bound THEN { Raised }
    ELSE LET first == { build_route_geojson(p, s) :
                        p \in pgr_dijkstra(AppRows(Weighted, cplex_cost),
                                           s, t, FALSE) }
             c == [ w \in Ways |->
                      penalty_clause(w, ways[w].cost_combined * Scale) ]
             fallback == { build_route_geojson(p, s) :
                           p \in pgr_dijkstra(AppRows(Weighted, c), s, t,
                                              FALSE) }
         IN  { g \in first : has_valid_route(g) }
             \cup IF \E g \in first : ~has_valid_route(g)
                  THEN { IF has_valid_route(g) THEN g ELSE Absent :
                         g \in fallback }
                  ELSE {}

Selected(req, a) == req.algorithm = "all" \/ req.algorithm = a

\* the route simulate_random_failures_on_route is given: a straight line
\* from start to end, taken to be 5 km long
simple_route(req) ==
    [ total_length_m |-> 5000, coordinates |-> << req.start, req.end >> ]

\* the values blocking_segments can end with: one or two draws among the
\* early segments, a draw already in the list is not appended
blocking_segments(coordinates) ==
    LET early_segment_count == Max(1, (Len(coordinates) * 3) \div 10)
        early == 0..(early_segment_count - 1)
    IN  { << a >> : a \in early } \cup
        { << p[1], p[2] >> : p \in { q \in early \X early : q[1] # q[2] } }

\* random.randint(base_threats, base_threats + 2)
num_threats(route_length_m) ==
    LET base_threats == Max(1, Min(4, route_length_m \div 2000))
    IN  base_threats..(base_threats + 2)

\* the lists of threats the function can return: for each threat the segment
\* it is placed on and whether it is a blocking obstacle.  The function
\* executes no statement on the cursor it is given.
simulate_random_failures_on_route(route_geojson) ==
    LET coordinates == route_geojson.coordinates
    IN  IF Len(coordinates) < 2 THEN { << >> }
        ELSE UNION { UNION {
                 { [ i \in 1..n |->
                       IF i <= Len(bs)
                       THEN [ segment_idx |-> bs[i], is_blocking |-> TRUE ]
                       ELSE [ segment_idx |-> f[i], is_blocking |-> FALSE ] ] :
                   f \in [ (Len(bs) + 1)..n -> 0..(Len(coordinates) - 2) ] } :
                 bs \in blocking_segments(coordinates) } :
                 n \in num_threats(route_geojson.total_length_m) }

NoResultsOrThreats(results, simulated_threats) ==
    results = {} /\ simulated_threats = << >>

\* if not results: the test made before the simulated threats are added
NoResults(results, simulated_threats) == results = {}

\* the responses to a request whose start is located at s and its end at t
routes_between(req, s, t) ==
    { LET out == [ dijkstra_dist |-> r1, dijkstra_prob |-> r2,
                   astar_prob |-> r3, cplex |-> r4 ]
          results == { [ algorithm |-> a, route |-> out[a] ] :
                       a \in { b \in Algorithms :
                                 /\ Selected(req, b)
                                 /\ out[b].present } }
      IN  IF NoResults(results, simulated_threats)
          THEN [ status |-> 404, error |-> "NoRoute", nodes |-> << s, t >> ]
          ELSE [ status |-> 200, nodes |-> << s, t >>, results |-> results,
                 simulated_threats |-> simulated_threats ] :
      r1 \in route_dijkstra_dist(s, t),
      r2 \in route_dijkstra_prob(s, t),
      r3 \in route_astar_prob(s, t),
      r4 \in route_cplex(s, t),
      simulated_threats \in
          IF req.simulate_failures
          THEN simulate_random_failures_on_route(simple_route(req))
          ELSE { << >> } }

\* the responses api_calculate_route can give to a request
calculate_route(req) ==
    IF \E i \in 1..2 : req.start[i] = None \/ req.end[i] = None
    THEN { [ status |-> 400, error |-> "InvalidRequest" ] }
    ELSE UNION { IF s = None
                 THEN { [ status |-> 404, error |-> "NoStartNode" ] }
                 ELSE IF t = None
                 THEN { [ status |-> 404, error |-> "NoEndNode" ] }
                 ELSE routes_between(req, s, t) :
                 s \in nearest_node_row(req.start),
                 t \in nearest_node_row(req.end) }

api_calculate_route(req) ==
    /\ request' = req
    /\ response' \in calculate_route(req)
    /\ UNCHANGED << netVars, fail_prob, pmVars, rtVars, paVars >>

\* coordinates given as null
NullPoint == << None, None >>

\* the demonstration hazards are asked for on requests from A
AppRequests ==
    [ endpoint : {"app"}, start : NetworkPoints \cup {NullPoint},
      end : NetworkPoints, algorithm : Algorithms \cup {"all"},
      simulate_failures : {FALSE} ]
    \cup
    [ endpoint : {"app"}, start : { <<0, 0>> },
      end : RequestPoints, algorithm : {"dijkstra_dist", "all"},
      simulate_failures : {TRUE} ]

failed_edges_any(fp) == SUBSET Ways

\* the values "failed_edges" can take in the response of
\* api_simulate_failures for the annotation fp: the empty list
failed_edges(fp) == { {} }

\* the deprecated endpoint /api/simulate_failures: it takes no input, draws
\* nothing and answers 410
api_simulate_failures ==
    /\ request' = [ endpoint |-> "simulate" ]
    /\ \E failed \in failed_edges(fail_prob) :
          response' = [ status |-> 410, failed_edges |-> failed,
                        failed_nodes |-> {},
                        total_failed |-> Cardinality(failed) ]
    /\ UNCHANGED << netVars, fail_prob, pmVars, rtVars, paVars >>

\* the client takes the response
Return ==
    /\ response # NoResponse
    /\ request' = NoRequest
    /\ response' = NoResponse
    /\ UNCHANGED << netVars, fail_prob, pmVars, rtVars, paVars >>

-----------------------------------------------------------------------------
(* Specification of the annotators of the rr database *)

\* two ways in a row and a longer way around them
TriangleWays ==
    (1 :> Way(1, 2, 100, "no")) @@ (2 :> Way(2, 3, 100, "no")) @@
    (3 :> Way(1, 3, 300, "no"))

TriangleCoords == (1 :> <<0, 0>>) @@ (2 :> <<2, 0>>) @@ (3 :> <<4, 0>>)

\* amenazas/weather_threats.geojson does not exist
NoFile == [ exists |-> FALSE, features |-> << >> ]

\* the weather collector is not running
WeatherIdle ==
    /\ openweather = << >>
    /\ completed = << >>
    /\ wx_i = 0
    /\ feats = << >>
    /\ errors = << >>
    /\ weather_threats_geojson = NoFile
    /\ wx_pc = "idle"

\* no call of crawl has run
NoCall == [ tile |-> << 0, 0, 0, 0 >>, depth |-> 0, outcome |-> "none",
            subdivided |-> FALSE ]

\* the Waze fetcher is not running
WazeIdle ==
    /\ wz_stack = << >>
    /\ fetch_count = 0
    /\ wz_feats = << >>
    /\ wz_last = NoCall
    /\ waze_incidents_geojson = NoFile
    /\ wz_pc = "idle"

\* no Overpass query is being fetched
OverpassIdle ==
    /\ ov_base = 1
    /\ ov_k = 1
    /\ ov_log = << >>
    /\ ov_result = [ status |-> "idle", body |-> << >> ]

\* the tile extractors have taken no future
TilesIdle ==
    /\ tc_done = << >>
    /\ feats_all = << >>
    /\ traffic_calming_threats_geojson = NoFile
    /\ tc_pc = "idle"
    /\ osm_done = << >>

\* no loader runs
LoadersIdle ==
    /\ ld_loader = "none"
    /\ ld_feats = << >>
    /\ ld_rows = << >>
    /\ ld_pc = "idle"
    /\ metadata_widths = << >>

\* the collectors and loaders of the threat files are not running
InitCollectors ==
    WeatherIdle /\ WazeIdle /\ OverpassIdle /\ TilesIdle /\ LoadersIdle

InitServices ==
    /\ pm_pc = "idle"
    /\ pm_result = 0
    /\ rt_pc = "idle"
    /\ rt_nodes = << None, None >>
    /\ rt_written = << >>
    /\ mid_read = << >>
    /\ rt_routes = << NoRoute, NoRoute >>
    /\ threats = {}
    /\ intersections = {}
    /\ amenazas = {}
    /\ pa_pc = "idle"
    /\ request = NoRequest
    /\ response = NoResponse
    /\ elems = {}
    /\ nodes_geojson = {}
    /\ ways_geojson = {}
    /\ osm_pc = "fetch"

InitProcesses == InitServices /\ InitCollectors

InitIdle ==
    /\ InitProcesses
    /\ sim_route = [ total_length_m |-> 0, coordinates |-> << >> ]
    /\ sim_threats = << >>
    /\ sim_pc = "idle"

InitAnnot ==
    /\ ways = TriangleWays
    /\ coords = TriangleCoords
    /\ fail_prob = [ w \in DOMAIN TriangleWays |-> 0 ]
    /\ pm_before = fail_prob
    /\ prob_falla = fail_prob
    /\ costo_amenaza = fail_prob
    /\ costo_combinado = [ w \in DOMAIN TriangleWays |-> None ]
    /\ wvp_geom \in BOOLEAN
    /\ missing_tables = {}
    /\ InitIdle

NextAnnot ==
    \/ \E t \in ThreatRows : LoadThreat(t)
    \/ PM_Reset
    \/ PM_Calculate
    \/ RT_Begin
    \/ RT_Simulate
    \/ RT_Resilient
    \/ RT_Finish

SpecAnnot == InitAnnot /\ [][NextAnnot]_vars

\* run_test over an annotation that probability_model has committed before
InitSim ==
    /\ ways = TriangleWays
    /\ coords = TriangleCoords
    /\ fail_prob \in [ DOMAIN TriangleWays -> {0, 9500} ]
    /\ pm_before = fail_prob
    /\ prob_falla = [ w \in DOMAIN TriangleWays |-> 0 ]
    /\ costo_amenaza = [ w \in DOMAIN TriangleWays |-> 0 ]
    /\ costo_combinado = [ w \in DOMAIN TriangleWays |-> None ]
    /\ wvp_geom = FALSE
    /\ missing_tables = {}
    /\ InitIdle

NextSim ==
    \/ \E r \in IntersectionRows : LoadIntersection(r)
    \/ RT_Begin
    \/ RT_Simulate
    \/ RT_Resilient
    \/ RT_Finish

SpecSim == InitSim /\ [][NextSim]_vars

-----------------------------------------------------------------------------
(* Specification of the two route endpoints and of procesar_amenazas.py     *)

\* A-B-C-D in a row with the detour B-E-C, the way D-H without cost_combined,
\* and the way F-G apart from the rest; B-C has a maxwidth of 3 m
ScenarioWays(oneway_BC) ==
    (1 :> Way(1, 2, 100, "no")) @@
    (2 :> [ Way(2, 3, 100, oneway_BC) EXCEPT !.maxwidth_m = 30 ]) @@
    (3 :> Way(3, 4, 100, "no")) @@ (4 :> Way(2, 5, 150, "no")) @@
    (5 :> Way(5, 3, 150, "no")) @@
    (6 :> [ Way(4, 6, 100, "no") EXCEPT !.cost_combined = 0 ]) @@
    (7 :> Way(7, 8, 100, "no"))

ScenarioCoords ==
    (1 :> <<0, 0>>) @@ (2 :> <<2, 0>>) @@ (3 :> <<4, 0>>) @@ (4 :> <<6, 0>>) @@
    (5 :> <<3, 2>>) @@ (6 :> <<6, 2>>) @@ (7 :> <<3, 3>>) @@ (8 :> <<3, 5>>)

\* fail_prob 0.8 on B-C
ScenarioFailProb == [ w \in 1..7 |-> IF w = 2 THEN 8000 ELSE 0 ]

\* fail_prob 0.8 on B-C and 0.6 on C-D, the only way to D
BridgeFailProb ==
    [ w \in 1..7 |-> IF w = 2 THEN 8000 ELSE IF w = 3 THEN 6000 ELSE 0 ]

InitRoute ==
    /\ \E o \in {"no", "yes", "-1"} : ways = ScenarioWays(o)
    /\ coords = ScenarioCoords
    /\ fail_prob \in { ScenarioFailProb } \cup
                     IF ways[2].oneway = "no" THEN { BridgeFailProb } ELSE {}
    /\ pm_before = fail_prob
    /\ prob_falla = [ w \in 1..7 |-> 0 ]
    /\ costo_amenaza = [ w \in 1..7 |-> 0 ]
    /\ costo_combinado = [ w \in 1..7 |-> None ]
    /\ wvp_geom = FALSE
    /\ missing_tables = {}
    /\ InitIdle

NextRoute ==
    \/ /\ response = NoResponse
       /\ \/ \E a \in AmenazaRows : LoadAmenaza(a)
          \/ resetear_costos
          \/ procesar_amenazas
          \/ calcular_costo_combinado
          \/ \E req \in MainRequests : get_routes_endpoint(req)
          \/ \E req \in AppRequests : api_calculate_route(req)
          \/ api_simulate_failures
    \/ Return

SpecRoute == InitRoute /\ [][NextRoute]_vars

-----------------------------------------------------------------------------
(* Specification of procesar_amenazas.py over a database in which one of    *)
(* its three tables may not exist                                           *)

InitPipeline ==
    /\ ways = ScenarioWays("no")
    /\ coords = ScenarioCoords
    /\ fail_prob = ScenarioFailProb
    /\ pm_before = fail_prob
    /\ prob_falla = [ w \in 1..7 |-> 0 ]
    /\ costo_amenaza = [ w \in 1..7 |-> 0 ]
    /\ costo_combinado = [ w \in 1..7 |-> None ]
    /\ wvp_geom = FALSE
    /\ missing_tables \in { {} } \cup
                          { { amenazas_config[i] } : i \in DOMAIN amenazas_config }
    /\ InitIdle

NextPipeline ==
    \/ \E a \in AmenazaRows : LoadAmenaza(a)
    \/ resetear_costos
    \/ procesar_amenazas
    \/ calcular_costo_combinado

SpecPipeline == InitPipeline /\ [][NextPipeline]_vars

-----------------------------------------------------------------------------
(* infraestructura/osm_roads_overpass_parallel.py and                       *)
(* loaders/load_ways_nodes.py: the network snapshot.  An element is a node  *)
(* [type, id, lon, lat] or a way [type, id, nodes] as Overpass returns it.   *)

OsmNodeIds == 1..3

OsmElements ==
    { [ type |-> "node", id |-> n, lon |-> 2 * n, lat |-> 0 ] : n \in OsmNodeIds }
    \cup
    [ type : {"way"}, id : {11, 12},
      nodes : { <<1, 2>>, <<2, 3>>, <<1, 2, 3>> } ]

\* worker: the elements of one tile's response are added to elems; a tile
\* that fails, or a response cut short, adds less.  nodes[el["id"]] = el and
\* ways[el["id"]] = el keep one element per id.
worker(el) ==
    /\ osm_pc = "fetch"
    /\ \A e \in elems : ~ ( e.type = el.type /\ e.id = el.id )
    /\ elems' = elems \cup { el }
    /\ UNCHANGED << ways, coords, missing_tables, nodes_geojson, ways_geojson,
                    osm_pc, simVars, colVars, fail_prob, pmVars, rtVars,
                    paVars, reqVars >>

\* the coordinates of the referenced nodes that were downloaded
RECURSIVE WayCoords(_, _)
WayCoords(refs, nodes) ==
    IF refs = << >> THEN << >>
    ELSE LET nn == { n \in nodes : n.id = Head(refs) }
         IN  ( IF nn = {} THEN << >>
               ELSE LET n == CHOOSE m \in nn : TRUE
                    IN  << << n.lon, n.lat >> >> )
             \o WayCoords(Tail(refs), nodes)

\* main of the extractor, from the elements to the two files
osm_main ==
    /\ osm_pc = "fetch"
    /\ LET nodes == { el \in elems : el.type = "node" }
           wys   == { el \in elems : el.type = "way" }
       IN  /\ nodes_geojson' =
                 { [ id |-> n.id, coordinates |-> << n.lon, n.lat >> ] :
                   n \in nodes }
           /\ ways_geojson' =
                 { [ id |-> w.id,
                     source |-> w.nodes[1],
                     target |-> w.nodes[Len(w.nodes)],
                     coordinates |-> WayCoords(w.nodes, nodes) ] :
                   w \in { v \in wys : Len(WayCoords(v.nodes, nodes)) >= 2 } }
    /\ osm_pc' = "written"
    /\ UNCHANGED << ways, coords, missing_tables, elems, simVars, colVars,
                    fail_prob, pmVars, rtVars, paVars, reqVars >>

\* the length of the line through the coordinates, in the model's plane
RECURSIVE line_length_m(_)
line_length_m(cs) ==
    IF Len(cs) < 2 THEN 0
    ELSE Isqrt(Dist2(cs[1], cs[2]), 0, Dist2(cs[1], cs[2]) + 1)
         + line_length_m(Tail(cs))

\* load_ways_nodes.main: iter_nodes_rows and iter_ways_rows into rr.nodes and
\* rr.ways
load_ways_nodes ==
    /\ osm_pc = "written"
    /\ coords' = [ n \in { f.id : f \in nodes_geojson } |->
                     ( CHOOSE f \in nodes_geojson : f.id = n ).coordinates ]
    /\ ways' = [ w \in { f.id : f \in ways_geojson } |->
                   LET f == CHOOSE g \in ways_geojson : g.id = w
                   IN  [ Way(f.source, f.target, line_length_m(f.coordinates),
                             FALSE) EXCEPT !.cost_combined = None ] ]
    /\ fail_prob' = [ w \in { f.id : f \in ways_geojson } |-> 0 ]
    /\ osm_pc' = "loaded"
    /\ UNCHANGED << missing_tables, elems, nodes_geojson, ways_geojson,
                    simVars, colVars, pmVars, rtVars, paVars, reqVars >>

InitExtract ==
    /\ ways = << >>
    /\ coords = << >>
    /\ fail_prob = << >>
    /\ pm_before = << >>
    /\ prob_falla = << >>
    /\ costo_amenaza = << >>
    /\ costo_combinado = << >>
    /\ wvp_geom = FALSE
    /\ missing_tables = {}
    /\ InitIdle

NextExtract ==
    \/ \E el \in OsmElements : worker(el)
    \/ osm_main
    \/ load_ways_nodes

SpecExtract == InitExtract /\ [][NextExtract]_vars

-----------------------------------------------------------------------------
(* Specification of probability_model.py over a database in which one of    *)
(* the three threat tables may not exist                                    *)

InitMissing ==
    /\ ways = TriangleWays
    /\ coords = TriangleCoords
    /\ fail_prob = [ w \in DOMAIN TriangleWays |-> 0 ]
    /\ pm_before = fail_prob
    /\ prob_falla = fail_prob
    /\ costo_amenaza = fail_prob
    /\ costo_combinado = [ w \in DOMAIN TriangleWays |-> None ]
    /\ wvp_geom \in BOOLEAN
    /\ missing_tables \in { {} } \cup
                          { { table_name[tbl] } : tbl \in ThreatTables }
    /\ InitIdle

NextMissing ==
    \/ \E t \in ThreatRows : LoadThreat(t)
    \/ PM_Reset
    \/ PM_Calculate

SpecMissing == InitMissing /\ [][NextMissing]_vars

-----------------------------------------------------------------------------
(* Specification of simulate_random_failures_on_route over the routes it can *)
(* be given                                                                  *)

MaxCoordinates == 3

RouteLengths == {0, 1000, 2000, 5000, 6000, 9000, 13000}

\* a route of k coordinates along a line
SimRoutes ==
    [ total_length_m : RouteLengths,
      coordinates : { [ i \in 1..k |-> << 2 * (i - 1), 0 >> ] :
                      k \in 0..MaxCoordinates } ]

CallSimulate ==
    /\ sim_pc = "call"
    /\ sim_threats' \in simulate_random_failures_on_route(sim_route)
    /\ sim_pc' = "returned"
    /\ UNCHANGED << ways, coords, missing_tables, osmVars, sim_route,
                    colVars, fail_prob, pmVars, rtVars, paVars, reqVars >>

InitThreats ==
    /\ ways = TriangleWays
    /\ coords = TriangleCoords
    /\ fail_prob = [ w \in DOMAIN TriangleWays |-> 0 ]
    /\ pm_before = fail_prob
    /\ prob_falla = fail_prob
    /\ costo_amenaza = fail_prob
    /\ costo_combinado = [ w \in DOMAIN TriangleWays |-> None ]
    /\ wvp_geom = FALSE
    /\ missing_tables = {}
    /\ InitProcesses
    /\ sim_route \in SimRoutes
    /\ sim_threats = << >>
    /\ sim_pc = "call"

NextThreats == CallSimulate

SpecThreats == InitThreats /\ [][NextThreats]_vars

-----------------------------------------------------------------------------
(* amenazas/weather_openweather_parallel.py: one fetch per grid cell in a    *)
(* thread pool.  Coordinates are in units of an eighth of the grid step.     *)

BBOX_S == 0

BBOX_W == 0

BBOX_N == 4

BBOX_E == 20

GRID == 8

\* WEATHER_PARALLEL, the workers of the pool
PAR == 2

\* the inner loop of grid_cells: the cells of one row from lon eastwards
RECURSIVE grid_row(_, _, _, _, _)
grid_row(lat, lat2, lon, e, step) ==
    IF lon >= e THEN << >>
    ELSE LET lon2 == Min(e, lon + step)
         IN  << << lat, lon, lat2, lon2, (lat + lat2) \div 2,
                   (lon + lon2) \div 2 >> >>
             \o grid_row(lat, lat2, lon2, e, step)

\* the cells (lat, lon, lat2, lon2, centre lat, centre lon) in the order
\* they are generated
RECURSIVE grid_cells(_, _, _, _, _)
grid_cells(s, w, n, e, step) ==
    IF s >= n THEN << >>
    ELSE LET lat2 == Min(n, s + step)
         IN  grid_row(s, lat2, w, e, step) \o grid_cells(lat2, w, n, e, step)

cells == grid_cells(BBOX_S, BBOX_W, BBOX_N, BBOX_E, GRID)

Centre(cell) == << cell[5], cell[6] >>

\* what the API can answer for a point
WeatherKinds == {"clear", "rain", "error"}

\* fetch: the JSON of the point, which names the point in "coord", or the
\* HTTPError of raise_for_status, whose message holds the url with lat and lon
fetch(lat, lon) ==
    [ coord |-> << lat, lon >>,
      raised |-> openweather[<< lat, lon >>] = "error",
      weather |-> openweather[<< lat, lon >>] ]

\* get_threats, reduced to the rain rule
get_threats(m) ==
    IF m.weather = "rain"
    THEN << [ subtype |-> "HEAVY_RAIN", severity |-> 2 ] >>
    ELSE << >>

\* the polygon of a cell, by its corners
poly(cell) ==
    << << cell[2], cell[1] >>, << cell[4], cell[1] >>, << cell[4], cell[3] >>,
       << cell[2], cell[3] >>, << cell[2], cell[1] >> >>

\* f"ow:{cell[4]:.3f},{cell[5]:.3f}:{subtype}"
ext_id(cell, subtype) == << "ow", cell[5], cell[6], subtype >>

\* a future of the pool completes: the pool runs the PAR first futures that
\* have not completed, in the order they were submitted
fut_done(k) ==
    /\ wx_pc = "loop"
    /\ \A j \in DOMAIN completed : completed[j] # k
    /\ Cardinality({ j \in 1..(k - 1) :
                       \A h \in DOMAIN completed : completed[h] # j }) < PAR
    /\ completed' = Append(completed, k)
    /\ UNCHANGED << ways, coords, missing_tables, osmVars, simVars, wzVars,
                    ovVars, tcVars, ldVars,
                    openweather, wx_i, feats, errors,
                    weather_threats_geojson, wx_pc, fail_prob, pmVars,
                    rtVars, paVars, reqVars >>

\* one iteration of  for i, (cell, fut) in enumerate(zip(cells,
\* as_completed(futs))): the next cell of the list with the next future
\* that has completed
wx_iterate ==
    /\ wx_pc = "loop"
    /\ wx_i < Len(cells)
    /\ wx_i < Len(completed)
    /\ LET cell == cells[wx_i + 1]
           fut  == completed[wx_i + 1]
           res  == fetch(cells[fut][5], cells[fut][6])
       IN  IF res.raised
           THEN /\ errors' = Append(errors, [ cell |-> Centre(cell),
                                               error_msg |-> res ])
                /\ UNCHANGED feats
           ELSE /\ feats' = feats \o
                     [ t \in DOMAIN get_threats(res) |->
                         [ geometry |-> poly(cell),
                           ext_id   |-> ext_id(cell, get_threats(res)[t].subtype),
                           subtype  |-> get_threats(res)[t].subtype,
                           severity |-> get_threats(res)[t].severity,
                           res      |-> res ] ]
                /\ UNCHANGED errors
    /\ wx_i' = wx_i + 1
    /\ UNCHANGED << ways, coords, missing_tables, osmVars, simVars, wzVars,
                    ovVars, tcVars, ldVars,
                    openweather, completed, weather_threats_geojson, wx_pc,
                    fail_prob, pmVars, rtVars, paVars, reqVars >>

\* after the loop: the file is kept when every fetch failed and it exists,
\* and written otherwise
wx_write ==
    /\ wx_pc = "loop"
    /\ wx_i = Len(cells)
    /\ IF errors # << >> /\ feats = << >> /\ weather_threats_geojson # NoFile
       THEN /\ wx_pc' = "kept"
            /\ UNCHANGED weather_threats_geojson
       ELSE /\ wx_pc' = "written"
            /\ weather_threats_geojson' = [ exists |-> TRUE, features |-> feats ]
    /\ UNCHANGED << ways, coords, missing_tables, osmVars, simVars, wzVars,
                    ovVars, tcVars, ldVars,
                    openweather, completed, wx_i, feats, errors, fail_prob,
                    pmVars, rtVars, paVars, reqVars >>

\* the file of an earlier run
OldWeatherFile ==
    [ exists |-> TRUE,
      features |->
        << [ geometry |-> poly(cells[1]), ext_id |-> ext_id(cells[1], "SNOW"),
             subtype |-> "SNOW", severity |-> 1,
             res |-> [ coord |-> Centre(cells[1]), raised |-> FALSE,
                       weather |-> "snow" ] ] >> ]

InitWeather ==
    /\ ways = TriangleWays
    /\ coords = TriangleCoords
    /\ fail_prob = [ w \in DOMAIN TriangleWays |-> 0 ]
    /\ pm_before = fail_prob
    /\ prob_falla = fail_prob
    /\ costo_amenaza = fail_prob
    /\ costo_combinado = [ w \in DOMAIN TriangleWays |-> None ]
    /\ wvp_geom = FALSE
    /\ missing_tables = {}
    /\ InitServices
    /\ sim_route = [ total_length_m |-> 0, coordinates |-> << >> ]
    /\ sim_threats = << >>
    /\ sim_pc = "idle"
    /\ openweather \in [ { Centre(cells[k]) : k \in DOMAIN cells } -> WeatherKinds ]
    /\ completed = << >>
    /\ wx_i = 0
    /\ feats = << >>
    /\ errors = << >>
    /\ weather_threats_geojson \in { NoFile, OldWeatherFile }
    /\ wx_pc = "loop"
    /\ WazeIdle
    /\ OverpassIdle
    /\ TilesIdle
    /\ LoadersIdle

NextWeather ==
    \/ \E k \in DOMAIN cells : fut_done(k)
    \/ wx_iterate
    \/ wx_write

SpecWeather == InitWeather /\ [][NextWeather]_vars

-----------------------------------------------------------------------------
(* amenazas/waze_incidents_parallel_adaptive.py: the adaptive crawl of the   *)
(* bounding box and main.  A tile is << s, w, n, e >>.                       *)

MAX_DEPTH == 2

\* the features one run fetches over all its tiles, at most
MaxFeats == 3

\* the midpoints are whole numbers down to MAX_DEPTH in the model's units
subdivide_overlapping(s, w, n, e) ==
    LET mlat == (s + n) \div 2
        mlon == (w + e) \div 2
    IN  << << s, w, mlat, mlon >>, << s, mlon, mlat, e >>,
           << mlat, w, n, mlon >>, << s, w, mlat, mlon >> >>

subdivide(s, w, n, e) ==
    LET mlat == (s + n) \div 2
        mlon == (w + e) \div 2
    IN  << << s, w, mlat, mlon >>, << s, mlon, mlat, e >>,
           << mlat, w, n, mlon >>, << mlat, mlon, n, e >> >>

\* the features of the incidents: two reports of the incident "a", of
\* different severity, and one of "b"
WazeFeature(eid, sev) == [ ext_id |-> eid, severity |-> sev ]

\* to_features(fetch_box(tile)) for the tiles that answer
WazeResponses ==
    { << >>,
      << WazeFeature("a", 3) >>,
      << WazeFeature("a", 2), WazeFeature("b", 1) >>,
      << WazeFeature("b", 1), WazeFeature("a", 3) >> }

\* one call of crawl, up to its recursive calls: the body of the try raises,
\* and the tile is subdivided when depth < MAX_DEPTH, or it returns the
\* features of the tile, which may be none
crawl ==
    /\ wz_pc = "crawl"
    /\ wz_stack # << >>
    /\ LET call == Head(wz_stack)
           t    == call.tile
       IN  \/ /\ wz_feats' = wz_feats
              /\ IF call.depth >= MAX_DEPTH
                 THEN /\ wz_stack' = Tail(wz_stack)
                      /\ wz_last' = [ tile |-> t, depth |-> call.depth,
                                      outcome |-> "error",
                                      subdivided |-> FALSE ]
                 ELSE /\ wz_stack' =
                           [ q \in 1..4 |->
                               [ tile |-> subdivide(t[1], t[2], t[3], t[4])[q],
                                 depth |-> call.depth + 1 ] ]
                           \o Tail(wz_stack)
                      /\ wz_last' = [ tile |-> t, depth |-> call.depth,
                                      outcome |-> "error",
                                      subdivided |-> TRUE ]
           \/ \E fs \in WazeResponses :
                 /\ Len(wz_feats) + Len(fs) <= MaxFeats
                 /\ wz_feats' = wz_feats \o fs
                 /\ wz_stack' = Tail(wz_stack)
                 /\ wz_last' = [ tile |-> t, depth |-> call.depth,
                                 outcome |-> IF fs = << >> THEN "empty"
                                             ELSE "features",
                                 subdivided |-> FALSE ]
    /\ fetch_count' = fetch_count + 1
    /\ UNCHANGED << ways, coords, missing_tables, osmVars, simVars, wxVars,
                    ovVars, tcVars, ldVars,
                    waze_incidents_geojson, wz_pc, fail_prob, pmVars, rtVars,
                    paVars, reqVars >>

RECURSIVE dedupe_from(_, _)
dedupe_from(features, seen) ==
    IF features = << >> THEN << >>
    ELSE LET f == Head(features)
             eid == f.ext_id
         IN  IF eid # "" /\ eid \in seen
             THEN dedupe_from(Tail(features), seen)
             ELSE << f >> \o
                  dedupe_from(Tail(features),
                              IF eid # "" THEN seen \cup { eid } ELSE seen)

dedupe_none(features) == features

dedupe(features) == dedupe_from(features, {})

\* main after crawl has returned: the file is written unless nothing was
\* fetched and it exists.  write_text can fail to open the file (io_error);
\* the except clause then keeps the file that exists and tries to create an
\* empty one when none does, which can fail again.
waze_main ==
    /\ wz_pc = "crawl"
    /\ wz_stack = << >>
    /\ LET uniq == dedupe(wz_feats)
           empty == [ exists |-> TRUE, features |-> << >> ]
       IN  \E io_error, io_error_again \in BOOLEAN :
             IF uniq = << >> /\ waze_incidents_geojson.exists
             THEN /\ wz_pc' = "kept"
                  /\ UNCHANGED waze_incidents_geojson
             ELSE IF ~io_error
             THEN /\ wz_pc' = "written"
                  /\ waze_incidents_geojson' =
                         [ exists |-> TRUE, features |-> uniq ]
             ELSE IF waze_incidents_geojson.exists
             THEN /\ wz_pc' = "error_kept"
                  /\ UNCHANGED waze_incidents_geojson
             ELSE IF ~io_error_again
             THEN /\ wz_pc' = "error_created"
                  /\ waze_incidents_geojson' = empty
             ELSE /\ wz_pc' = "raised"
                  /\ UNCHANGED waze_incidents_geojson
    /\ UNCHANGED << ways, coords, missing_tables, osmVars, simVars, wxVars,
                    ovVars, tcVars, ldVars,
                    wz_stack, fetch_count, wz_feats, wz_last, fail_prob,
                    pmVars, rtVars, paVars, reqVars >>

\* the file of an earlier run
OldWazeFile ==
    [ exists |-> TRUE, features |-> << WazeFeature("old", 2) >> ]

InitWaze ==
    /\ ways = TriangleWays
    /\ coords = TriangleCoords
    /\ fail_prob = [ w \in DOMAIN TriangleWays |-> 0 ]
    /\ pm_before = fail_prob
    /\ prob_falla = fail_prob
    /\ costo_amenaza = fail_prob
    /\ costo_combinado = [ w \in DOMAIN TriangleWays |-> None ]
    /\ wvp_geom = FALSE
    /\ missing_tables = {}
    /\ InitServices
    /\ sim_route = [ total_length_m |-> 0, coordinates |-> << >> ]
    /\ sim_threats = << >>
    /\ sim_pc = "idle"
    /\ WeatherIdle
    /\ wz_stack = << [ tile |-> << BBOX_S, BBOX_W, BBOX_N, BBOX_E >>,
                       depth |-> 0 ] >>
    /\ fetch_count = 0
    /\ wz_feats = << >>
    /\ wz_last = NoCall
    /\ waze_incidents_geojson \in { NoFile, OldWazeFile }
    /\ wz_pc = "crawl"
    /\ OverpassIdle
    /\ TilesIdle
    /\ LoadersIdle

NextWaze ==
    \/ crawl
    \/ waze_main

SpecWaze == InitWaze /\ [][NextWaze]_vars

\* the fetcher runs to its end
SpecWazeLive == SpecWaze /\ WF_vars(NextWaze)

-----------------------------------------------------------------------------
(* fetch(q) of the Overpass extractors (traffic_calming_as_threats_parallel, *)
(* osm_roads_overpass_parallel, road_widths_osm): mirrors and retries        *)

MIRRORS ==
    << "https://overpass-api.de/api/interpreter",
       "https://overpass.kumi.systems/api/interpreter",
       "https://z.overpass-api.de/api/interpreter" >>

RETRIES == 3

\* what a request can end in: status 200 with a JSON body, status 200 with a
\* body r.json() cannot parse, another status, or an exception of requests
Outcomes == {"200", "200_not_json", "http_error", "exception"}

no_retries(k) == FALSE

\* for k in range(1, RETRIES + 1): another attempt on the same mirror follows
more_retries(k) == k < RETRIES

\* one pass of the inner loop: the request, and what follows it
fetch_attempt ==
    /\ ov_result.status = "pending"
    /\ \E outcome \in Outcomes :
          /\ ov_log' = Append(ov_log, [ base |-> MIRRORS[ov_base], k |-> ov_k,
                                        outcome |-> outcome ])
          /\ IF outcome = "200"
             THEN /\ ov_result' = [ status |-> "returned",
                                    body |-> << MIRRORS[ov_base], ov_k >> ]
                  /\ UNCHANGED << ov_base, ov_k >>
             ELSE IF more_retries(ov_k)
             THEN /\ ov_k' = ov_k + 1
                  /\ UNCHANGED << ov_base, ov_result >>
             ELSE IF ov_base < Len(MIRRORS)
             THEN /\ ov_base' = ov_base + 1
                  /\ ov_k' = 1
                  /\ UNCHANGED ov_result
             ELSE /\ ov_result' = [ status |-> "raised", body |-> << >> ]
                  /\ UNCHANGED << ov_base, ov_k >>
    /\ UNCHANGED << ways, coords, missing_tables, osmVars, simVars, wxVars,
                    wzVars, tcVars, ldVars, fail_prob, pmVars, rtVars,
                    paVars, reqVars >>

InitOverpass ==
    /\ ways = TriangleWays
    /\ coords = TriangleCoords
    /\ fail_prob = [ w \in DOMAIN TriangleWays |-> 0 ]
    /\ pm_before = fail_prob
    /\ prob_falla = fail_prob
    /\ costo_amenaza = fail_prob
    /\ costo_combinado = [ w \in DOMAIN TriangleWays |-> None ]
    /\ wvp_geom = FALSE
    /\ missing_tables = {}
    /\ InitServices
    /\ sim_route = [ total_length_m |-> 0, coordinates |-> << >> ]
    /\ sim_threats = << >>
    /\ sim_pc = "idle"
    /\ WeatherIdle
    /\ WazeIdle
    /\ ov_base = 1
    /\ ov_k = 1
    /\ ov_log = << >>
    /\ ov_result = [ status |-> "pending", body |-> << >> ]
    /\ TilesIdle
    /\ LoadersIdle

NextOverpass == fetch_attempt

SpecOverpass == InitOverpass /\ [][NextOverpass]_vars

-----------------------------------------------------------------------------
(* The tile stage of amenazas/traffic_calming_as_threats_parallel.py and of  *)
(* infraestructura/osm_roads_overpass_parallel.py: one worker per tile in a  *)
(* thread pool, the results taken in the order the workers complete          *)

ROWS == 1

COLS == 3

\* the tiles of tiles(...), by their position in the list
Tiles == 1..(ROWS * COLS)

\* the elements Overpass has for the calming query of each tile; the tiles
\* overlap by their padding, so node 2 is in two of them, and node 3 has no
\* latitude
CalmingData ==
    << << [ type |-> "node", id |-> 1, lon |-> 2, lat |-> 0 ],
          [ type |-> "node", id |-> 2, lon |-> 4, lat |-> 0 ] >>,
       << [ type |-> "node", id |-> 2, lon |-> 4, lat |-> 0 ],
          [ type |-> "node", id |-> 3, lon |-> 6, lat |-> None ] >>,
       << [ type |-> "node", id |-> 4, lon |-> 8, lat |-> 0 ] >> >>

RECURSIVE nodes_to_features(_)
nodes_to_features(data) ==
    IF data = << >> THEN << >>
    ELSE LET el == Head(data)
         IN  ( IF el.type # "node" \/ el.lon = None \/ el.lat = None
               THEN << >>
               ELSE << [ ext_id |-> el.id, subtype |-> "TRAFFIC_CALMING",
                         severity |-> 1,
                         coordinates |-> << el.lon, el.lat >> ] >> )
             \o nodes_to_features(Tail(data))

calming_worker_first_only(tile, fetched) ==
    IF fetched /\ CalmingData[tile] # << >>
    THEN nodes_to_features(<< Head(CalmingData[tile]) >>)
    ELSE << >>

\* worker(tile): the features of the tile, or [] when fetch raised
calming_worker(tile, fetched) ==
    IF fetched THEN nodes_to_features(CalmingData[tile]) ELSE << >>

TakenTiles(done) == { done[i].tile : i \in DOMAIN done }

\* for fut in as_completed(futs): feats_all.extend(fut.result()), for the
\* future that completes next, whose fetch has answered or raised
calming_take(tile, fetched) ==
    /\ tc_pc = "tiles"
    /\ tile \notin TakenTiles(tc_done)
    /\ tc_done' = Append(tc_done, [ tile |-> tile, fetched |-> fetched ])
    /\ feats_all' = feats_all \o calming_worker(tile, fetched)
    /\ UNCHANGED << ways, coords, missing_tables, osmVars, simVars, wxVars,
                    wzVars, ovVars, ldVars, traffic_calming_threats_geojson,
                    tc_pc, osm_done, fail_prob, pmVars, rtVars, paVars,
                    reqVars >>

\* main of the calming extractor after the pool
calming_write ==
    /\ tc_pc = "tiles"
    /\ TakenTiles(tc_done) = Tiles
    /\ traffic_calming_threats_geojson' =
           [ exists |-> TRUE, features |-> feats_all ]
    /\ tc_pc' = "written"
    /\ UNCHANGED << ways, coords, missing_tables, osmVars, simVars, wxVars,
                    wzVars, ovVars, ldVars, tc_done, feats_all, osm_done,
                    fail_prob, pmVars, rtVars, paVars, reqVars >>

\* the elements Overpass has for the roads query of each tile: the ways of
\* the tile and all the nodes of those ways
OsmTileData ==
    LET node(n) == [ type |-> "node", id |-> n, lon |-> 2 * n, lat |-> 0 ]
        way(w, refs) == [ type |-> "way", id |-> w, nodes |-> refs ]
    IN  << { node(1), node(2), way(11, << 1, 2 >>) },
           { node(2), node(3), way(12, << 2, 3 >>) },
           { node(1), node(2), node(3), way(11, << 1, 2 >>),
             way(13, << 1, 2, 3 >>) } >>

\* worker(tile) of the roads extractor: data.get("elements", []) or []
osm_tile_worker(tile, fetched) ==
    IF fetched THEN OsmTileData[tile] ELSE {}

\* for fut in as_completed(futs): elems.extend(fut.result())
osm_take(tile, fetched) ==
    /\ osm_pc = "fetch"
    /\ tile \notin TakenTiles(osm_done)
    /\ osm_done' = Append(osm_done, [ tile |-> tile, fetched |-> fetched ])
    /\ elems' = elems \cup osm_tile_worker(tile, fetched)
    /\ UNCHANGED << ways, coords, missing_tables, nodes_geojson, ways_geojson,
                    osm_pc, simVars, wxVars, wzVars, ovVars, ldVars, tc_done,
                    feats_all, traffic_calming_threats_geojson, tc_pc,
                    fail_prob, pmVars, rtVars, paVars, reqVars >>

\* main of the roads extractor after the pool
osm_main_after_pool ==
    /\ TakenTiles(osm_done) = Tiles
    /\ osm_main

InitTiles ==
    /\ ways = << >>
    /\ coords = << >>
    /\ fail_prob = << >>
    /\ pm_before = << >>
    /\ prob_falla = << >>
    /\ costo_amenaza = << >>
    /\ costo_combinado = << >>
    /\ wvp_geom = FALSE
    /\ missing_tables = {}
    /\ InitServices
    /\ sim_route = [ total_length_m |-> 0, coordinates |-> << >> ]
    /\ sim_threats = << >>
    /\ sim_pc = "idle"
    /\ WeatherIdle
    /\ WazeIdle
    /\ OverpassIdle
    /\ tc_done = << >>
    /\ feats_all = << >>
    /\ traffic_calming_threats_geojson = NoFile
    /\ tc_pc = "tiles"
    /\ osm_done = << >>
    /\ LoadersIdle

NextTiles ==
    \/ \E tile \in Tiles, fetched \in BOOLEAN : calming_take(tile, fetched)
    \/ calming_write
    \/ \E tile \in Tiles, fetched \in BOOLEAN : osm_take(tile, fetched)
    \/ osm_main_after_pool

SpecTiles == InitTiles /\ [][NextTiles]_vars

-----------------------------------------------------------------------------
(* loaders/load_threats_waze.py and loaders/load_threats_weather.py: the     *)
(* features of the file, deduplicated by ext_id, are upserted.  A feature is *)
(* [ext_id, severity]; "" is an ext_id that is missing or empty, and a row   *)
(* names the feature it was made from by its position in the list.           *)

\* the features one input file has, at most
MaxLoaderFeats == 3

ThreatFeatures == [ ext_id : {"", "a", "b"}, severity : {None, 1, 3} ]

\* amenazas/amenazas_muestra.geojson, the sample the Waze loader falls back on
GJ_SAMPLE == << [ ext_id |-> "s", severity |-> 2 ] >>

\* p.get("severity") or 0
severity_or_0(f) == IF f.severity = None THEN 0 ELSE f.severity

prefer_or_equal(new, cur) == new >= cur

\* the test that replaces the feature kept for an ext_id
prefer(new, cur) == new > cur

\* the loop over feats that fills best: the entries [ext, idx] in the order
\* the keys were inserted
RECURSIVE best_threats(_, _, _)
best_threats(fs, i, best) ==
    IF i > Len(fs) THEN best
    ELSE LET ext == fs[i].ext_id
             at  == { k \in DOMAIN best : best[k].ext = ext }
         IN  IF ext = "" THEN best_threats(fs, i + 1, best)
             ELSE IF at = {}
             THEN best_threats(fs, i + 1,
                               Append(best, [ ext |-> ext, idx |-> i ]))
             ELSE LET k == CHOOSE j \in at : TRUE
                  IN  IF prefer(severity_or_0(fs[i]),
                                severity_or_0(fs[best[k].idx]))
                      THEN best_threats(fs, i + 1,
                                        [ best EXCEPT ![k].idx = i ])
                      ELSE best_threats(fs, i + 1, best)

\* the rows built from best; the severity column is 'severity or 0' in the
\* Waze loader and 'severity or 1' in the weather loader
threat_rows(fs, loader) ==
    LET best == best_threats(fs, 1, << >>)
    IN  [ k \in DOMAIN best |->
            [ ext_id |-> best[k].ext,
              severity |-> IF fs[best[k].idx].severity # None
                           THEN fs[best[k].idx].severity
                           ELSE IF loader = "waze" THEN 0 ELSE 1,
              idx |-> best[k].idx ] ]

\* main of the two loaders
load_threats ==
    /\ ld_pc = "read"
    /\ ld_loader \in {"waze", "weather"}
    /\ \E sample_exists \in BOOLEAN :
          LET use_sample == ld_loader = "waze" /\ ld_feats = << >>
              fs    == IF use_sample THEN GJ_SAMPLE ELSE ld_feats
              rows  == threat_rows(fs, ld_loader)
              tbl   == IF ld_loader = "waze" THEN "waze" ELSE "clima"
          IN  IF \/ use_sample /\ ~sample_exists
                 \/ ld_loader = "weather" /\ ( fs = << >> \/ rows = << >> )
              THEN /\ ld_pc' = "returned"
                   /\ UNCHANGED << ld_feats, ld_rows, threats >>
              ELSE /\ ld_feats' = fs
                   /\ ld_rows' = rows
                   /\ IF table_name[tbl] \in missing_tables
                      THEN /\ ld_pc' = "raised"
                           /\ UNCHANGED threats
                      ELSE /\ ld_pc' = "loaded"
                           /\ threats' =
                                { u \in threats :
                                    ~ ( u.tbl = tbl /\ \E k \in DOMAIN rows :
                                            rows[k].ext_id = u.ext_id ) }
                                \cup
                                { [ ext_id |-> rows[k].ext_id, tbl |-> tbl,
                                    severity |-> rows[k].severity,
                                    distance_m |-> 0, area_m2 |-> 250000,
                                    ways |-> {1} ] : k \in DOMAIN rows }
    /\ UNCHANGED << ways, coords, missing_tables, osmVars, simVars, wxVars,
                    wzVars, ovVars, tcVars, ld_loader, metadata_widths,
                    fail_prob, wvp_geom, pm_pc, pm_result, pm_before, rtVars,
                    paVars, reqVars >>

\* the lists of at most MaxLoaderFeats features from a set
FeatureLists(S) ==
    UNION { [ 1..n -> S ] : n \in 0..MaxLoaderFeats }

InitThreatLoad ==
    /\ ways = TriangleWays
    /\ coords = TriangleCoords
    /\ fail_prob = [ w \in DOMAIN TriangleWays |-> 0 ]
    /\ pm_before = fail_prob
    /\ prob_falla = fail_prob
    /\ costo_amenaza = fail_prob
    /\ costo_combinado = [ w \in DOMAIN TriangleWays |-> None ]
    /\ wvp_geom = FALSE
    /\ missing_tables = {}
    /\ InitServices
    /\ sim_route = [ total_length_m |-> 0, coordinates |-> << >> ]
    /\ sim_threats = << >>
    /\ sim_pc = "idle"
    /\ WeatherIdle
    /\ WazeIdle
    /\ OverpassIdle
    /\ TilesIdle
    /\ ld_loader \in {"waze", "weather"}
    /\ ld_feats \in FeatureLists(ThreatFeatures)
    /\ ld_rows = << >>
    /\ ld_pc = "read"
    /\ metadata_widths = << >>

NextThreatLoad == load_threats

SpecThreatLoad == InitThreatLoad /\ [][NextThreatLoad]_vars

-----------------------------------------------------------------------------
(* loaders/load_widths.py: the features of metadata/road_widths.geojson,     *)
(* deduplicated by osm_id, are upserted into rr.metadata_widths and applied  *)
(* to rr.ways.  A raw width that is missing or empty is "".                  *)

WidthFeatures ==
    [ osm_id : {None, 1, 2}, width_raw : {"", "3"},
      maxwidth_raw : {"", "2.5 m"}, lanes : {None, 2} ]

\* Mayor puntaje = mas informativo
score_feat(p) ==
    ( IF p.width_raw # "" THEN 2 ELSE 0 )
    + ( IF p.maxwidth_raw # "" THEN 2 ELSE 0 )
    + ( IF p.lanes # None THEN 1 ELSE 0 )

\* the number a raw width starts with, in the unit it names (metres when it
\* names none), in decimetres
parse_width_to_m(v) ==
    IF v = "" THEN None
    ELSE IF v = "3" THEN 30
    ELSE IF v = "2.5 m" THEN 25
    ELSE None

\* the loop over feats that fills best: the entries [oid, sc, idx] in the
\* order the keys were inserted
RECURSIVE best_widths(_, _, _)
best_widths(fs, i, best) ==
    IF i > Len(fs) THEN best
    ELSE LET p   == fs[i]
             oid == p.osm_id
             sc  == score_feat(p)
             at  == { k \in DOMAIN best : best[k].oid = oid }
         IN  IF oid = None THEN best_widths(fs, i + 1, best)
             ELSE IF at = {}
             THEN best_widths(fs, i + 1,
                     Append(best, [ oid |-> oid, sc |-> sc, idx |-> i ]))
             ELSE LET k    == CHOOSE j \in at : TRUE
                      prev == best[k]
                  IN  IF \/ sc > prev.sc
                         \/ /\ sc = prev.sc
                            /\ p.lanes # None
                            /\ fs[prev.idx].lanes = None
                      THEN best_widths(fs, i + 1,
                              [ best EXCEPT ![k] =
                                  [ oid |-> oid, sc |-> sc, idx |-> i ] ])
                      ELSE best_widths(fs, i + 1, best)

\* the rows built from best
width_rows(fs) ==
    LET best == best_widths(fs, 1, << >>)
    IN  [ k \in DOMAIN best |->
            LET p == fs[best[k].idx]
            IN  [ osm_id |-> best[k].oid, lanes |-> p.lanes,
                  width_m |-> parse_width_to_m(p.width_raw),
                  maxwidth_m |-> parse_width_to_m(p.maxwidth_raw),
                  width_raw |-> p.width_raw,
                  maxwidth_raw |-> p.maxwidth_raw,
                  idx |-> best[k].idx ] ]

\* main of the widths loader: the upsert into rr.metadata_widths, then the
\* UPDATE of rr.ways from every row of rr.metadata_widths (rr.ways.width_m is
\* not part of the model of a way)
load_widths ==
    /\ ld_pc = "read"
    /\ ld_loader = "widths"
    /\ LET rows == width_rows(ld_feats)
           new  == { rows[k].osm_id : k \in DOMAIN rows }
           m    == [ o \in DOMAIN metadata_widths \cup new |->
                       IF o \in new
                       THEN rows[CHOOSE k \in DOMAIN rows :
                                    rows[k].osm_id = o]
                       ELSE metadata_widths[o] ]
       IN  /\ ld_rows' = rows
           /\ metadata_widths' = m
           /\ ways' = [ w \in DOMAIN ways |->
                          IF w \in DOMAIN m /\ m[w].maxwidth_m # None
                          THEN [ ways[w] EXCEPT !.maxwidth_m = m[w].maxwidth_m ]
                          ELSE ways[w] ]
           /\ ld_pc' = "loaded"
    /\ UNCHANGED << coords, missing_tables, osmVars, simVars, wxVars, wzVars,
                    ovVars, tcVars, ld_loader, ld_feats, threats, fail_prob,
                    wvp_geom, pm_pc, pm_result, pm_before, rtVars, paVars,
                    reqVars >>

InitWidths ==
    /\ ways = TriangleWays
    /\ coords = TriangleCoords
    /\ fail_prob = [ w \in DOMAIN TriangleWays |-> 0 ]
    /\ pm_before = fail_prob
    /\ prob_falla = fail_prob
    /\ costo_amenaza = fail_prob
    /\ costo_combinado = [ w \in DOMAIN TriangleWays |-> None ]
    /\ wvp_geom = FALSE
    /\ missing_tables = {}
    /\ InitServices
    /\ sim_route = [ total_length_m |-> 0, coordinates |-> << >> ]
    /\ sim_threats = << >>
    /\ sim_pc = "idle"
    /\ WeatherIdle
    /\ WazeIdle
    /\ OverpassIdle
    /\ TilesIdle
    /\ ld_loader = "widths"
    /\ ld_feats \in FeatureLists(WidthFeatures)
    /\ ld_rows = << >>
    /\ ld_pc = "read"
    /\ metadata_widths = << >>

NextWidths == load_widths

SpecWidths == InitWidths /\ [][NextWidths]_vars

-----------------------------------------------------------------------------
(* Properties *)

\* C1: after the annotation pass of procesar_amenazas every way's failure
\* probability is the maximum of the contributions of all the hazards that
\* influence it, so a second hazard with a lower contribution changes nothing
C1_MaximumOfContributions ==
    pa_pc = "combinar" =>
        \A w \in Ways :
            prob_falla[w] =
                SetMax({0} \cup { prob(a) : a \in { b \in amenazas :
                                                      w \in b.ways } })

\* C2: the fail_prob that calculate_failure_probabilities leaves on every way
\* lies between 0.0 and 1.0, and so does every probability the two
\* probability functions return, for each hazard type, severity 1..5,
\* distance and size (the functions read nothing of the state: their range is
\* evaluated in the states with empty hazard tables)
C2_FailProbInUnitInterval ==
    /\ \A w \in Ways : 0 <= fail_prob[w] /\ fail_prob[w] <= Scale
    /\ threats = {} =>
       \A ty \in ThreatTypes, sev \in Severities, d \in Distances,
          a \in Areas, rf \in RandomFactors :
          LET size_m == Isqrt(a, 0, 4096)
              dyn == { calculate_dynamic_probability(ty, sev, d, size_m, df, rf) :
                       df \in DurationFactors }
              wea == { calculate_dynamic_weather_probability(sev, d, size_m,
                                                             vf, rf) :
                       vf \in {Scale, 15000} }
          IN  \A p \in dyn \cup wea : 0 <= p /\ p <= Scale

\* a completed pass over weather hazards has put a way at the cap
C2_Witness ==
    /\ pm_pc = "idle"
    /\ pm_result = 0
    /\ Table("clima") # {}
    /\ \E w \in Ways : fail_prob[w] = 9500

\* C3: a simulation pass over a hazard list replaces the prior probabilities:
\* after it every way without a hazard of the list is at 0.0 and every other
\* way at the value derived from the list alone
C3_SimulationReplaces ==
    rt_pc = "simulated" =>
        \A w \in Ways :
            LET mine == { r \in intersections : r.way_id = w }
            IN  Visible[w] =
                    IF mine = {} THEN 0
                    ELSE SetMax({ threat_case(r.kind[1], r.kind[2], r.severity) :
                                  r \in mine })

\* C4: a 'cplex' request answered with a route has every edge of the route
\* below the threshold 0.5, and one for which no such route exists is answered
\* with a NoSafePath error
C4_FilteredBelowThreshold ==
    ( /\ request.endpoint = "app"
      /\ request.algorithm = "cplex"
      /\ response.status \in {200, 404}
      /\ response.nodes[1] # response.nodes[2] ) =>
        LET safe == { w \in Ways : fail_prob[w] < 5000 }
            c == [ w \in Ways |-> ways[w].length_m ]
            safe_paths == SimplePaths(Arcs(AppRows(safe, c), FALSE),
                                      response.nodes[1], response.nodes[2],
                                      { response.nodes[1] })
        IN  IF response.status = 200
            THEN \A r \in response.results :
                    \A i \in 1..Len(r.route.edges) :
                        fail_prob[r.route.edges[i]] < 5000
            ELSE safe_paths = {} => response.error = "NoSafePath"

\* C5: for every edge the risk-weighted cost of run_routing_algorithm is at
\* least its distance cost, and more when the edge has fail_prob > 0
C5_RiskNeverCheaper ==
    \A r \in ways_routing(Visible) :
        /\ cost_expression(TRUE, r) >= cost_expression(FALSE, r)
        /\ r.fail_prob > 0 => cost_expression(TRUE, r) > cost_expression(FALSE, r)

\* C6: on the scenario network (A-B-C-D of 100 m ways, fail_prob 0.8 on B-C,
\* detour A-B-E-C-D of 500 m) the distance planner answers a request from A to
\* D with A-B-C-D at cost 300, and the risk-weighted planner 'dijkstra_prob'
\* answers it with the detour
C6_ScenarioDetour ==
    ( /\ ways[2].oneway = "no"
      /\ fail_prob = ScenarioFailProb
      /\ request.endpoint \in {"main", "app"}
      /\ request.start = <<0, 0>>
      /\ request.end = <<6, 0>> ) =>
        /\ request.endpoint = "main" =>
              /\ response.status = 200
              /\ response.routes.dijkstra_distancia.nodes = <<1, 2, 3, 4>>
              /\ response.routes.dijkstra_distancia.cost = 300 * CostScale
        /\ ( /\ request.endpoint = "app"
             /\ request.algorithm \in {"all", "dijkstra_prob"} ) =>
              /\ response.status = 200
              /\ \E r \in response.results :
                    /\ r.algorithm = "dijkstra_prob"
                    /\ r.route.nodes = <<1, 2, 5, 3, 4>>

\* C7: no returned route of either endpoint traverses a forward-only way from
\* its target to its source, and a request along bidirectional ways is
\* answered with a route in either direction at the same cost
C7_OnewayHonoured ==
    LET Forward(nodes, edges) ==
            \A i \in 1..Len(edges) :
                ways[edges[i]].oneway = "yes" =>
                    nodes[i] = ways[edges[i]].source
        AlongBC == /\ ways[2].oneway = "no"
                   /\ { request.start, request.end } = { <<0, 0>>, <<6, 0>> }
    IN  /\ ( request.endpoint = "main" /\ response.status = 200 ) =>
              /\ \A k \in {"dijkstra_distancia", "dijkstra_ponderada"} :
                    Forward(response.routes[k].nodes, response.routes[k].edges)
              /\ AlongBC =>
                    response.routes.dijkstra_distancia.cost = 300 * CostScale
        /\ ( request.endpoint = "app" /\ response.status = 200 ) =>
              \A r \in response.results :
                  Forward(r.route.nodes, r.route.edges)
        /\ ( /\ request.endpoint = "app"
             /\ request.algorithm \in {"all", "dijkstra_dist"}
             /\ AlongBC ) =>
              /\ response.status = 200
              /\ \E r \in response.results :
                    /\ r.algorithm = "dijkstra_dist"
                    /\ r.route.total_length_m = 300

C10_RebuildAtomicForReaders ==
    [][ ( pm_pc = "calculate" /\ pm_pc' = "idle" /\ mid_read # << >> ) =>
            mid_read \in { pm_before, fail_prob' } ]_vars

\* C11: the annotation pass is deterministic: started on the same network and
\* the same hazard tables, calculate_failure_probabilities can leave only one
\* assignment of fail_prob, so two runs give identical values
C11_AnnotationDeterministic ==
    pm_pc = "calculate" =>
        Cardinality({ out.fp : out \in calculate_failure_probabilities(fail_prob) }) = 1

\* C12: a failure on one hazard table only skips that table: when
\* procesar_amenazas has returned, every way within the radius of a row of a
\* table that could be read carries that table's contribution, whether the
\* failing table came before or after it in the loop
C12_FailingTableOnlySkipped ==
    pa_pc = "combinar" =>
        \A w \in Ways :
            ( \E a \in amenazas : w \in a.ways ) =>
                ( prob_falla[w] > 0 /\ costo_amenaza[w] > 0 )

\* C13: a request whose start or end coordinate has no network node within a
\* sane distance (here ten units, more than the extent of the whole network)
\* is answered with the NoNearbyNode error (404), and that error is only
\* given when the lookup found no node, whatever the id of a node found
C13_FarCoordinateIsNoNearbyNode ==
    LET Far(pt) == \A n \in Nodes : Dist2(coords[n], pt) > 10 * 10
        NoNearbyNode ==
            /\ response.status = 404
            /\ response.error \in {"NoNearbyNode", "NoStartNode", "NoEndNode"}
        Located(pt) ==
            IF request.endpoint = "main"
            THEN find_nearest_node(pt[1], pt[2]) # { None }
            ELSE nearest_node_row(pt) # { None }
    IN  ( request.endpoint \in {"main", "app"} /\ response.status # 400 ) =>
            /\ ( Far(request.start) \/ Far(request.end) ) => NoNearbyNode
            /\ NoNearbyNode =>
                  ~ ( Located(request.start) /\ Located(request.end) )

C15_WaysReferenceWrittenNodes ==
    osm_pc # "fetch" =>
        \A f \in ways_geojson :
            /\ f.source \in { n.id : n \in nodes_geojson }
            /\ f.target \in { n.id : n \in nodes_geojson }

\* C16: a simulated failure scenario is never persisted: no step of run_test
\* changes the committed fail_prob of a way, and when run_test ends, normally
\* or by an exception raised after the simulation, none of its updates is left
C16_SimulationNeverPersisted ==
    [][ /\ fail_prob' = fail_prob
        /\ rt_pc' = "idle" => rt_written' = << >> ]_vars

\* the simulation has written a fail_prob that differs from the committed
\* one, and run_test is about to end
C16_Witness ==
    /\ rt_pc = "compared"
    /\ \E w \in DOMAIN rt_written : rt_written[w] # fail_prob[w]

\* C18: for a route of at least two coordinates
\* simulate_random_failures_on_route returns between 1 and 4 threats, at
\* least one per 2 km of route length up to that cap; for a route of fewer
\* than two coordinates it returns the empty list
C18_OneToFourThreats ==
    sim_pc = "returned" =>
        IF Len(sim_route.coordinates) >= 2
        THEN /\ Len(sim_threats) >= 1
             /\ Len(sim_threats) <= 4
             /\ Len(sim_threats) >= Min(4, sim_route.total_length_m \div 2000)
        ELSE sim_threats = << >>

C20_MissingTablesHandled ==
    [][ ( /\ missing_tables # {}
          /\ Table("waze") = {} /\ Table("calming") = {} /\ ~wvp_geom
          /\ threats' = threats
          /\ pm_pc' = "idle" ) =>
            /\ pm_result' = 0
            /\ pm_pc = "calculate" =>
                  \A w \in Ways :
                      ( \E t \in Table("clima") : w \in t.ways ) =>
                          fail_prob'[w] > 0 ]_vars

\* C21: a request with algorithm 'all' between two distinct nodes joined by
\* ways with a combined cost is answered 200 with one result for each of
\* dijkstra_dist, dijkstra_prob, astar_prob and cplex
C21_AllAlgorithmsAnswered ==
    ( /\ request.endpoint = "app"
      /\ request.algorithm = "all"
      /\ response.status \in {200, 404}
      /\ response.nodes[1] # response.nodes[2]
      /\ SimplePaths(Arcs(AppRows(Weighted, [ w \in Ways |-> 1 ]), FALSE),
                     response.nodes[1], response.nodes[2],
                     { response.nodes[1] }) # {} ) =>
        /\ response.status = 200
        /\ { r.algorithm : r \in response.results } = Algorithms

\* C22: every feature of the weather collector carries the polygon and the
\* ext_id of the cell whose centre was queried for its weather result, and
\* every error is reported against the cell whose fetch failed
C22_FeatureOfQueriedCell ==
    /\ \A i \in DOMAIN feats :
          \E k \in DOMAIN cells :
              /\ Centre(cells[k]) = feats[i].res.coord
              /\ feats[i].geometry = poly(cells[k])
              /\ feats[i].ext_id = ext_id(cells[k], feats[i].subtype)
    /\ \A i \in DOMAIN errors : errors[i].cell = errors[i].error_msg.coord

C25_MirrorsInOrderWithRetries ==
    LET n == Len(ov_log)
        failed(i) == ov_log[i].outcome # "200"
    IN  /\ n <= Len(MIRRORS) * RETRIES
        /\ \A i \in 1..n :
              /\ ov_log[i].base = MIRRORS[((i - 1) \div RETRIES) + 1]
              /\ ov_log[i].k = ((i - 1) % RETRIES) + 1
        /\ \A i \in 1..(n - 1) : failed(i)
        /\ ov_result.status = "returned" <=> ( n > 0 /\ ~failed(n) )
        /\ ov_result.status = "returned" =>
              ov_result.body = << ov_log[n].base, ov_log[n].k >>
        /\ ov_result.status = "raised" <=>
              ( n = Len(MIRRORS) * RETRIES /\ \A i \in 1..n : failed(i) )

\* the second mirror has answered after the first failed RETRIES times, one
\* of them with a 200 response that was not JSON
C25_Witness ==
    /\ ov_result.status = "returned"
    /\ ov_result.body[1] = MIRRORS[2]
    /\ \E i \in DOMAIN ov_log : ov_log[i].outcome = "200_not_json"

\* C26: in the parallel tile extractors a tile whose fetch fails adds nothing
\* and the other tiles are collected all the same: what is collected, and
\* the node ids and way ids written, are those of the tiles that were
\* fetched, whatever the order in which the workers complete
C26_UnionOfFetchedTiles ==
    LET Fetched(done) == { done[i].tile : i \in { j \in DOMAIN done :
                                                    done[j].fetched } }
        Valid(t) == { CalmingData[t][i] : i \in
                        { j \in DOMAIN CalmingData[t] :
                            /\ CalmingData[t][j].lon # None
                            /\ CalmingData[t][j].lat # None } }
        Collected(S) == { f.ext_id : f \in S }
        Of(S, type) == { el.id : el \in { e \in S : e.type = type } }
        OsmFetched == UNION { OsmTileData[t] : t \in Fetched(osm_done) }
    IN  /\ Collected({ feats_all[i] : i \in DOMAIN feats_all })
             = { el.id : el \in UNION { Valid(t) : t \in Fetched(tc_done) } }
        /\ tc_pc = "written" =>
              /\ TakenTiles(tc_done) = Tiles
              /\ traffic_calming_threats_geojson.features = feats_all
        /\ elems = OsmFetched
        /\ osm_pc = "written" =>
              /\ { f.id : f \in nodes_geojson } = Of(OsmFetched, "node")
              /\ { f.id : f \in ways_geojson } = Of(OsmFetched, "way")

\* both extractors have written their files after the second tile failed
\* and the third completed before the first
C26_Witness ==
    /\ tc_pc = "written"
    /\ osm_pc = "written"
    /\ tc_done = << [ tile |-> 3, fetched |-> TRUE ],
                    [ tile |-> 2, fetched |-> FALSE ],
                    [ tile |-> 1, fetched |-> TRUE ] >>
    /\ osm_done = tc_done
    /\ { f.id : f \in ways_geojson } = {11, 13}

\* C27: the rows the Waze and weather loaders upsert hold exactly one row
\* for each distinct non-empty ext_id of the features, made from the feature
\* of the highest severity with that ext_id, the first of them in the list
\* when several have it, a missing severity counting as 0; features without
\* ext_id give no row
C27_OneRowPerExtIdOfMaxSeverity ==
    ( ld_loader \in {"waze", "weather"} /\ ld_pc = "loaded" ) =>
        LET Sev(i) == IF ld_feats[i].severity = None THEN 0
                      ELSE ld_feats[i].severity
            With(ext) == { i \in DOMAIN ld_feats : ld_feats[i].ext_id = ext }
            Exts == { ld_feats[i].ext_id : i \in DOMAIN ld_feats } \ { "" }
            Best(ext) == SetMin({ i \in With(ext) :
                                    \A j \in With(ext) : Sev(j) <= Sev(i) })
        IN  /\ { ld_rows[k].ext_id : k \in DOMAIN ld_rows } = Exts
            /\ Len(ld_rows) = Cardinality(Exts)
            /\ \A k \in DOMAIN ld_rows :
                  ld_rows[k].idx = Best(ld_rows[k].ext_id)
            /\ \A ext \in Exts :
                  Cardinality({ u \in threats : u.ext_id = ext }) = 1

\* a file with two features of ext_id "a" and severity 3 around one without
\* ext_id has been loaded
C27_Witness ==
    /\ ld_pc = "loaded"
    /\ ld_loader = "weather"
    /\ ld_feats = << [ ext_id |-> "a", severity |-> 3 ],
                     [ ext_id |-> "", severity |-> 3 ],
                     [ ext_id |-> "a", severity |-> 3 ] >>
    /\ Len(ld_rows) = 1
    /\ ld_rows[1].idx = 1

\* C28: the widths loader keeps, for each osm_id, the richest feature by the
\* rule of its docstring: a feature with width_raw or maxwidth_raw before one
\* with neither, among those a feature with non-null lanes before one
\* without, and the first seen among the features that still tie; the rows
\* hold exactly one row for each osm_id
C28_RichestByDocumentedRule ==
    ( ld_loader = "widths" /\ ld_pc = "loaded" ) =>
        LET HasWidth(i) == ld_feats[i].width_raw # ""
                           \/ ld_feats[i].maxwidth_raw # ""
            HasLanes(i) == ld_feats[i].lanes # None
            Richer(i, j) == \/ HasWidth(i) /\ ~HasWidth(j)
                            \/ /\ HasWidth(i) = HasWidth(j)
                               /\ HasLanes(i) /\ ~HasLanes(j)
            With(oid) == { i \in DOMAIN ld_feats : ld_feats[i].osm_id = oid }
            Oids == { ld_feats[i].osm_id : i \in DOMAIN ld_feats } \ { None }
            Best(oid) == SetMin({ i \in With(oid) :
                                    \A j \in With(oid) : ~Richer(j, i) })
        IN  /\ { ld_rows[k].osm_id : k \in DOMAIN ld_rows } = Oids
            /\ Len(ld_rows) = Cardinality(Oids)
            /\ \A k \in DOMAIN ld_rows :
                  ld_rows[k].idx = Best(ld_rows[k].osm_id)

\* C29: the failure probabilities simulate_failures_and_update_graph writes
\* lie in [0, 1] for every source, subtype and severity 1..5 of the rows of
\* rr.way_threat_intersections, so every way the count of fail_prob >= 0.75
\* counts has a valid probability
C29_SimulatedProbabilitiesValid ==
    rt_pc = "simulated" =>
        /\ \A w \in DOMAIN rt_written :
              0 <= rt_written[w] /\ rt_written[w] <= Scale
        /\ \A w \in Ways : Visible[w] >= 7500 => Visible[w] <= Scale

=============================================================================
